---- MODULE Spec2Model ----
(***************************************************************************)
(* A model of the magnetic-logo particle demo: the logo sampler            *)
(* (loadLogoPixelPositions), point generation (makeRng, generateLogoPoints,*)
(* createParticleSystem), the per-frame loop (animate, simulate) and the   *)
(* React component that owns the systems (App).                            *)
(*                                                                         *)
(* Numbers.  Coordinates are fixed point: 1.0 is Scale units.  A value of  *)
(* rng() is the 32-bit word u it is computed from, standing for u / 2^32.  *)
(* edgeWeight is kept in halves (edgeWeight = e / 2), so that its floor    *)
(* matters.  Time is kept in milliseconds.                                 *)
(***************************************************************************)
EXTENDS Integers, Sequences, FiniteSets, TLC

VARIABLES
    bitmap,      \* the decoded logo: [width, height, alpha], alpha by pixel index py*width+px
    logoPixelPositionsCache, \* edgeWeight -> the cached promise
    fetches,     \* number of times the logo was fetched and decoded
    sys,         \* the particle systems: the state createParticleSystem closes over
    rafQueue,    \* the animation frame callbacks requested and not yet run or cancelled
    nextFrameId, \* the handle the next requestAnimationFrame returns
    now,         \* performance.now(), in milliseconds
    gpu,         \* whether navigator.gpu is there
    app,         \* the App component: its React state and refs
    effectMounted, \* the variable mounted of each run of the effect
    inits        \* the calls of init: the effect run each belongs to, and where it stands

samplerVars == <<bitmap, logoPixelPositionsCache, fetches>>
systemVars == <<sys, rafQueue, nextFrameId, now>>
appVars == <<gpu, app, effectMounted, inits>>
vars == <<samplerVars, systemVars, appVars>>

(***************************************************************************)
(* Bounds of the model.                                                    *)
(***************************************************************************)
MaxDim == 4
MaxPixels == 12

\* Fixed-point unit of a coordinate: 1.0 is Scale units.
Scale == 2400

\* Alpha values of a pixel: transparent, and the faintest solid one.
AlphaValues == {0, 1}
\* edgeWeight in halves: 0, 0.5, 1, 1.5, 2.5, 3
EdgeWeights == {0, 1, 2, 3, 5, 6}

Bitmaps ==
    UNION { { [width |-> w, height |-> h, alpha |-> a] :
                 a \in [0..(w * h - 1) -> AlphaValues] } :
            <<w, h>> \in { d \in (1..MaxDim) \X (1..MaxDim) : d[1] * d[2] <= MaxPixels } }

Max(a, b) == IF a > b THEN a ELSE b
Min(a, b) == IF a < b THEN a ELSE b

(***************************************************************************)
(* The logo sampler: loadLogoPixelPositions.                               *)
(***************************************************************************)
\* A mutant of isSolid: the bounds check lets the column px = width through,
\* which reads the first pixel of the next row.
isSolidWrap(img, px, py) ==
    IF px < 0 \/ py < 0 \/ px > img.width \/ py >= img.height
    THEN FALSE
    ELSE IF py * img.width + px >= img.width * img.height THEN FALSE
    ELSE img.alpha[py * img.width + px] > 0

isSolid(img, px, py) ==
    IF px < 0 \/ py < 0 \/ px >= img.width \/ py >= img.height
    THEN FALSE
    ELSE img.alpha[py * img.width + px] > 0

touchesEmpty(img, x, y) ==
    \/ ~isSolid(img, x + 1, y)
    \/ ~isSolid(img, x - 1, y)
    \/ ~isSolid(img, x, y + 1)
    \/ ~isSolid(img, x, y - 1)
    \/ ~isSolid(img, x + 1, y + 1)
    \/ ~isSolid(img, x - 1, y - 1)
    \/ ~isSolid(img, x + 1, y - 1)
    \/ ~isSolid(img, x - 1, y + 1)

\* A mutant of pixelNdc: the corner of the pixel is taken, not its centre.
pixelNdcCorner(img, x, y) ==
    << ((2 * x) * Scale) \div img.width - Scale,
       ((2 * (img.height - y)) * Scale) \div img.height - Scale >>

\* nx = ((x + 0.5) / width) * 2 - 1, ny = ((height - (y + 0.5)) / height) * 2 - 1
pixelNdc(img, x, y) ==
    << ((2 * x + 1) * Scale) \div img.width - Scale,
       ((2 * (img.height - y) - 1) * Scale) \div img.height - Scale >>

\* The two nested loops over y and x, as one loop over the pixel index
\* k = y * width + x: the fill list built from the pixels k..last.
RECURSIVE fillPositions(_, _)
fillPositions(img, k) ==
    IF k >= img.width * img.height THEN << >>
    ELSE LET x == k % img.width
             y == k \div img.width
         IN  IF isSolid(img, x, y)
             THEN << pixelNdc(img, x, y) >> \o fillPositions(img, k + 1)
             ELSE fillPositions(img, k + 1)

RECURSIVE borderPositions(_, _)
borderPositions(img, k) ==
    IF k >= img.width * img.height THEN << >>
    ELSE LET x == k % img.width
             y == k \div img.width
         IN  IF isSolid(img, x, y) /\ touchesEmpty(img, x, y)
             THEN << pixelNdc(img, x, y) >> \o borderPositions(img, k + 1)
             ELSE borderPositions(img, k + 1)

\* borderWeight = Math.max(1, Math.floor(edgeWeight)), edgeWeight = e / 2
borderWeight(e) == Max(1, e \div 2)

RECURSIVE repeatSeq(_, _)
repeatSeq(s, n) == IF n <= 0 THEN << >> ELSE s \o repeatSeq(s, n - 1)

\* positions = fill, then the border list borderWeight times
weightedPositions(img, e) ==
    fillPositions(img, 0) \o repeatSeq(borderPositions(img, 0), borderWeight(e))

\* The states of a promise.
Absent == [state |-> "absent", value |-> << >>, message |-> ""]
Pending == [state |-> "pending", value |-> << >>, message |-> ""]
Rejected(msg) == [state |-> "rejected", value |-> << >>, message |-> msg]
Resolved(v) == [state |-> "resolved", value |-> v, message |-> ""]

\* What the browser does to the body of the promise: the fetch or the
\* decoding rejects, getContext("2d") returns null, or neither.
EnvOutcomes == {"ok", "fetchRejects", "noContext"}

logoPromiseResult(img, e, env) ==
    IF env = "fetchRejects" THEN Rejected("Failed to fetch")
    ELSE IF env = "noContext" THEN Rejected("Logo mask unavailable")
    ELSE IF Len(fillPositions(img, 0)) = 0 THEN Rejected("Logo mask empty")
    ELSE Resolved(weightedPositions(img, e))

\* A mutant of LoadLogoCall: a rejected promise in the cache is not returned,
\* the image is loaded again.
LoadLogoCallRetry(e) ==
    /\ logoPixelPositionsCache' =
          IF logoPixelPositionsCache[e].state \in {"pending", "resolved"}
          THEN logoPixelPositionsCache
          ELSE [logoPixelPositionsCache EXCEPT ![e] = Pending]
    /\ fetches' =
          IF logoPixelPositionsCache[e].state \in {"pending", "resolved"}
          THEN fetches ELSE fetches + 1

\* loadLogoPixelPositions(edgeWeight) up to its return: the cached promise is
\* returned when there is one, else a new promise is started and cached.
LoadLogoCall(e) ==
    /\ logoPixelPositionsCache' =
          IF logoPixelPositionsCache[e].state # "absent"
          THEN logoPixelPositionsCache
          ELSE [logoPixelPositionsCache EXCEPT ![e] = Pending]
    /\ fetches' =
          IF logoPixelPositionsCache[e].state # "absent" THEN fetches ELSE fetches + 1

(***************************************************************************)
(* makeRng: 32-bit words are pairs <<hi, lo>> of 16-bit halves.             *)
(***************************************************************************)
Half == 2 ^ 16

RECURSIVE xorBits(_, _, _)
xorBits(a, b, n) ==
    IF n = 0 THEN 0
    ELSE ((a + b) % 2) + 2 * xorBits(a \div 2, b \div 2, n - 1)

RECURSIVE orBits(_, _, _)
orBits(a, b, n) ==
    IF n = 0 THEN 0
    ELSE (IF a % 2 = 1 \/ b % 2 = 1 THEN 1 ELSE 0) + 2 * orBits(a \div 2, b \div 2, n - 1)

\* a ^ b
xor32(a, b) == << xorBits(a[1], b[1], 16), xorBits(a[2], b[2], 16) >>

\* c | a, for a constant c below 2^16
orLow(c, a) == << a[1], orBits(c, a[2], 16) >>

\* a >>> n, for 0 < n < 16
shr32(a, n) ==
    << a[1] \div (2 ^ n), (a[1] % (2 ^ n)) * (2 ^ (16 - n)) + a[2] \div (2 ^ n) >>

\* (a + b) mod 2^32
add32(a, b) ==
    << (a[1] + b[1] + (a[2] + b[2]) \div Half) % Half, (a[2] + b[2]) % Half >>

\* the product of two 16-bit numbers, as a 32-bit word
mul16(x, y) ==
    LET p == (x % 256) * y
        q == (x \div 256) * y
        low == p + (q % 256) * 256
    IN  << (q \div 256 + low \div Half) % Half, low % Half >>

\* Math.imul(a, b): the low 32 bits of the product
imul(a, b) ==
    LET ll == mul16(a[2], b[2])
        hl == mul16(a[1], b[2])
        lh == mul16(a[2], b[1])
    IN  << (ll[1] + hl[2] + lh[2]) % Half, ll[2] >>

\* seed >>> 0, for a seed below 2^31
seedWord(seed) == << seed \div Half, seed % Half >>

\* s = (s + 0x6d2b79f5) >>> 0
rngAdvance(s) == add32(s, << 27947, 31221 >>)

\* The 32-bit word u that rng() returns as u / 4294967296, from the state
\* s that the call has just advanced to.
rngWord(s) ==
    LET t1 == imul(xor32(s, shr32(s, 15)), orLow(1, s))
        t2 == xor32(t1, add32(t1, imul(xor32(t1, shr32(t1, 7)), orLow(61, t1))))
    IN  xor32(t2, shr32(t2, 14))

\* Math.floor(rng() * n) for the word u of rng() and 0 <= n < 2^15
rngTimes(u, n) == (u[1] * n + (u[2] * n) \div Half) \div Half

(***************************************************************************)
(* generateLogoPoints and the data createParticleSystem initialises.       *)
(***************************************************************************)
\* const jitter = 0.0025, in coordinate units
jitter == (25 * Scale) \div 10000

clampUnit(v) == Max(-Scale, Min(Scale, v))

\* A mutant of logoPointsLoop: the loop stops one point early.
RECURSIVE logoPointsShort(_, _, _)
logoPointsShort(positions, n, s) ==
    IF n <= 1 THEN [points |-> << >>, s |-> s]
    ELSE LET s1 == rngAdvance(s)
             s2 == rngAdvance(s1)
             s3 == rngAdvance(s2)
             base == positions[rngTimes(rngWord(s1), Len(positions)) + 1]
             dx == rngTimes(rngWord(s2), jitter) - jitter \div 2
             dy == rngTimes(rngWord(s3), jitter) - jitter \div 2
             more == logoPointsShort(positions, n - 1, s3)
         IN  [points |-> << << clampUnit(base[1] + dx), clampUnit(base[2] + dy) >> >>
                            \o more.points,
              s |-> more.s]

\* The loop of generateLogoPoints: n more points from the candidate list,
\* drawing a candidate index, dx and dy for each; the points and the state
\* the generator is left in.  (rng() - 0.5) * jitter is rounded down to the
\* coordinate grid.
RECURSIVE logoPointsLoop(_, _, _)
logoPointsLoop(positions, n, s) ==
    IF n <= 0 THEN [points |-> << >>, s |-> s]
    ELSE LET s1 == rngAdvance(s)
             s2 == rngAdvance(s1)
             s3 == rngAdvance(s2)
             base == positions[rngTimes(rngWord(s1), Len(positions)) + 1]
             dx == rngTimes(rngWord(s2), jitter) - jitter \div 2
             dy == rngTimes(rngWord(s3), jitter) - jitter \div 2
             more == logoPointsLoop(positions, n - 1, s3)
         IN  [points |-> << << clampUnit(base[1] + dx), clampUnit(base[2] + dy) >> >>
                            \o more.points,
              s |-> more.s]

\* Math.cos(angle) and Math.sin(angle), in fifths, at the twelve angles
\* where both are rational; angle = rng() * 2 pi falls in one of twelve
\* sectors of the turn.
Directions ==
    << <<5, 0>>, <<4, 3>>, <<3, 4>>, <<0, 5>>, <<-3, 4>>, <<-4, 3>>,
       <<-5, 0>>, <<-4, -3>>, <<-3, -4>>, <<0, -5>>, <<3, -4>>, <<4, -3>> >>

\* A mutant of restPoint: the radius is drawn from [scatter, 2 scatter).
restPointFar(t, uAngle, uRadius, scatter) ==
    LET dir == Directions[rngTimes(uAngle, Len(Directions)) + 1]
        radius == scatter \div 5 + rngTimes(uRadius, scatter \div 5)
    IN  << t[1] + dir[1] * radius, t[2] + dir[2] * radius >>

\* A mutant of restPoint: the radius is drawn before the angle.
restPointRadiusFirst(t, uAngle, uRadius, scatter) ==
    LET dir == Directions[rngTimes(uRadius, Len(Directions)) + 1]
        radius == rngTimes(uAngle, scatter \div 5)
    IN  << t[1] + dir[1] * radius, t[2] + dir[2] * radius >>

\* One rest position: rx = t.x + cos(angle) * radius, ry = t.y + sin(angle)
\* * radius with radius = rng() * scatter.  The radius is kept in steps of
\* five coordinate units, so that its product with a fifth is exact.
restPoint(t, uAngle, uRadius, scatter) ==
    LET dir == Directions[rngTimes(uAngle, Len(Directions)) + 1]
        radius == rngTimes(uRadius, scatter \div 5)
    IN  << t[1] + dir[1] * radius, t[2] + dir[2] * radius >>

\* A mutant of restPositionsOf: each rest position is laid about the first
\* mass point.
RECURSIVE restPositionsFirst(_, _, _, _)
restPositionsFirst(mass, k, s, scatter) ==
    IF k > Len(mass) THEN << >>
    ELSE LET s1 == rngAdvance(s)
             s2 == rngAdvance(s1)
         IN  << restPoint(mass[1], rngWord(s1), rngWord(s2), scatter) >>
                \o restPositionsFirst(mass, k + 1, s2, scatter)

\* restPositions = logoMassPoints.map(...), from element k on: an angle and a
\* radius are drawn for each mass point in turn.
RECURSIVE restPositionsOf(_, _, _, _)
restPositionsOf(mass, k, s, scatter) ==
    IF k > Len(mass) THEN << >>
    ELSE LET s1 == rngAdvance(s)
             s2 == rngAdvance(s1)
         IN  << restPoint(mass[k], rngWord(s1), rngWord(s2), scatter) >>
                \o restPositionsOf(mass, k + 1, s2, scatter)

\* logoPoints, logoMassPoints, restPositions and initialParticles of
\* createParticleSystem, from the candidate list.
initialDataOf(logoMassPoints, restPositions) ==
    [ logoMassPoints |-> logoMassPoints,
      restPositions |-> restPositions,
      initialParticles |->
         [ k \in 1..Len(restPositions) |->
              [position |-> restPositions[k], velocity |-> <<0, 0>>] ] ]

\* A mutant of restOf: the rest positions are laid about the first mass point.
restOfFirst(logoMassPoints, s, scatter) ==
    initialDataOf(logoMassPoints, restPositionsFirst(logoMassPoints, 1, s, scatter))

restOf(logoMassPoints, s, scatter) ==
    initialDataOf(logoMassPoints, restPositionsOf(logoMassPoints, 1, s, scatter))

\* A mutant of logoPointsOf: generateLogoPoints stops one point early.
logoPointsOfShort(positions, opts) ==
    logoPointsShort(positions, opts.particleCount, seedWord(opts.seed))

\* generateLogoPoints(particleCount, edgeWeight, rng) with rng = makeRng(seed)
logoPointsOf(positions, opts) ==
    logoPointsLoop(positions, opts.particleCount, seedWord(opts.seed))

\* logoPoints, logoMassPoints, restPositions and initialParticles of
\* createParticleSystem, from the candidate list.
initialData(positions, opts) ==
    CHOOSE d \in { restOf(SubSeq(gen.points, 1, Min(opts.particleCount, Len(gen.points))),
                          gen.s, opts.scatter) :
                     gen \in { logoPointsOf(positions, opts) } } : TRUE

(***************************************************************************)
(* The simulate kernel, in fixed point.  Positions are in coordinate units *)
(* (1.0 = Scale), velocities and forces in coordinate units per second     *)
(* (per second squared), hover and the other factors in thousandths, the   *)
(* time in milliseconds, angles in milliradians.  A quotient is rounded    *)
(* toward zero.                                                            *)
(***************************************************************************)
Milli == 10 ^ 3

Quot(a, b) == IF a >= 0 THEN a \div b ELSE -((-a) \div b)

vadd(a, b) == << a[1] + b[1], a[2] + b[2] >>
vsub(a, b) == << a[1] - b[1], a[2] - b[2] >>
vdot(a, b) == a[1] * b[1] + a[2] * b[2]
\* std.mul(v, k) for a factor k in thousandths
vmul(v, k) == << Quot(v[1] * k, Milli), Quot(v[2] * k, Milli) >>

RECURSIVE sqrtSearch(_, _, _)
sqrtSearch(n, lo, hi) ==
    IF lo >= hi THEN lo
    ELSE LET mid == (lo + hi + 1) \div 2
         IN  IF mid * mid <= n THEN sqrtSearch(n, mid, hi)
             ELSE sqrtSearch(n, lo, mid - 1)

\* std.sqrt, rounded down
isqrt(n) == sqrtSearch(n, 0, Min(n, 46340))

\* std.length
vlength(v) == isqrt(vdot(v, v))

\* std.mix(a, b, t) = a + (b - a) * t, t in thousandths
mix(a, b, t) == a + Quot((b - a) * t, Milli)

\* std.sin at the twelfths of the turn, in thousandths; the angle in
\* milliradians
SineTable == << 0, 500, 866, 1000, 866, 500, 0, -500, -866, -1000, -866, -500 >>
Turn == 6283
sin(a) == SineTable[((a % Turn) * 12) \div Turn + 1]
cos(a) == sin(a + Turn \div 4)

\* A read of element i of a storage buffer; a read outside the buffer gives
\* zero, and a remainder by zero is zero, as the shading language has them.
elementAt(buffer, i, zero) == IF i + 1 \in DOMAIN buffer THEN buffer[i + 1] ELSE zero
\* A mutant of imod: the remainder is taken by b + 1.
imodNext(a, b) == IF b = 0 THEN 0 ELSE a % (b + 1)

imod(a, b) == IF b = 0 THEN 0 ELSE a % b
ZeroVec == <<0, 0>>
ZeroParticle == [position |-> <<0, 0>>, velocity |-> <<0, 0>>]

\* A mutant of nearestLoop: a mass point as close as the nearest so far
\* replaces it.
RECURSIVE nearestLoopLast(_, _, _, _, _)
nearestLoopLast(massPoints, pos, i, massCount, nearest) ==
    IF i >= massCount THEN nearest
    ELSE LET m == elementAt(massPoints, i, ZeroVec)
             diff == vsub(m, pos)
             distSq == vdot(diff, diff)
             nearestDiff == vsub(nearest, pos)
             closer == distSq <= vdot(nearestDiff, nearestDiff)
         IN  nearestLoopLast(massPoints, pos, i + 1, massCount,
                             IF closer THEN m ELSE nearest)

\* The loop over the mass points 1..massCount-1 (lines 245-253): the nearest
\* one so far is replaced only by a strictly closer one.
RECURSIVE nearestLoop(_, _, _, _, _)
nearestLoop(massPoints, pos, i, massCount, nearest) ==
    IF i >= massCount THEN nearest
    ELSE LET m == elementAt(massPoints, i, ZeroVec)
             diff == vsub(m, pos)
             distSq == vdot(diff, diff)
             nearestDiff == vsub(nearest, pos)
             closer == distSq < vdot(nearestDiff, nearestDiff)
         IN  nearestLoop(massPoints, pos, i + 1, massCount,
                         IF closer THEN m ELSE nearest)

repulsionRadius == (5 * Scale) \div 100
\* 1e-5, in squared coordinate units
safeDistFloor == (Scale * Scale) \div (10 ^ 5) + 1

\* A mutant of repulsionLoop: the neighbours are the four next particles.
RECURSIVE repulsionLoopNear(_, _, _, _, _, _)
repulsionLoopNear(particlesIn, pos, index, count, repelStrength, step) ==
    IF step > 4 THEN <<0, 0>>
    ELSE LET neighborIdx == imod(index + step, count)
             other == elementAt(particlesIn, neighborIdx, ZeroParticle)
             diff == vsub(pos, other.position)
             distSq == vdot(diff, diff)
             within == distSq < repulsionRadius * repulsionRadius
             dist == isqrt(Max(distSq, safeDistFloor))
             dir == << Quot(diff[1] * Milli, dist), Quot(diff[2] * Milli, dist) >>
             push == vmul(dir, (repulsionRadius - dist) * repelStrength)
             rest == repulsionLoopNear(particlesIn, pos, index, count, repelStrength,
                                       step + 1)
         IN  IF within THEN vadd(push, rest) ELSE rest

\* The loop for (step = 1; step <= 37; step += 12) (lines 290-308).
RECURSIVE repulsionLoop(_, _, _, _, _, _)
repulsionLoop(particlesIn, pos, index, count, repelStrength, step) ==
    IF step > 37 THEN <<0, 0>>
    ELSE LET neighborIdx == imod(index + step, count)
             other == elementAt(particlesIn, neighborIdx, ZeroParticle)
             diff == vsub(pos, other.position)
             distSq == vdot(diff, diff)
             within == distSq < repulsionRadius * repulsionRadius
             dist == isqrt(Max(distSq, safeDistFloor))
             dir == << Quot(diff[1] * Milli, dist), Quot(diff[2] * Milli, dist) >>
             push == vmul(dir, (repulsionRadius - dist) * repelStrength)
             rest == repulsionLoop(particlesIn, pos, index, count, repelStrength,
                                   step + 12)
         IN  IF within THEN vadd(push, rest) ELSE rest

\* targetPos = nearest + wiggle * (wiggleOffsetScale * hover) (lines 255-259)
targetPosOf(nearest, u, index) ==
    vadd(nearest,
         vmul(vmul(<< sin(u.time * 4 + index * 170),
                      cos((u.time * 34) \div 10 + index * 110) >>,
                   Quot(u.wiggleOffsetScale * u.hoverStrength, Milli)),
              Scale))

\* targetDir (lines 263-267), in thousandths
targetDirOf(toTarget, targetDist) ==
    IF targetDist * Milli > Scale
    THEN << Quot(toTarget[1] * Milli, targetDist), Quot(toTarget[2] * Milli, targetDist) >>
    ELSE <<0, 0>>

\* gravity = targetDir * (gravityStrength * hover) (line 271)
gravityOf(targetDir, u) ==
    vmul(vmul(targetDir, Quot(u.gravityStrength * u.hoverStrength, Milli)), Scale)

\* A mutant of springForceOf: the spring does not fade with the hover.
springForceAlways(targetDir, targetDist, u) ==
    vmul(targetDir, Quot(targetDist * mix(18 * Milli, 32 * Milli, u.hoverStrength), Milli))

\* springForce = targetDir * (targetDist * springStrength * hover) (lines 269, 272)
springForceOf(targetDir, targetDist, u) ==
    vmul(targetDir,
         Quot(Quot(targetDist * mix(18 * Milli, 32 * Milli, u.hoverStrength), Milli)
                 * u.hoverStrength,
              Milli))

\* dampingForce = vel * -dampingStrength (lines 270, 273)
dampingForceOf(vel, u) == vmul(vel, -mix(12 * Milli, 3 * Milli, u.hoverStrength))

\* restForce = (rest - pos) * (6.0 * (1.0 - hover)) (line 275)
restForceOf(rest, pos, u) == vmul(vsub(rest, pos), 6 * (Milli - u.hoverStrength))

\* wiggleForce (lines 277-283)
wiggleForceOf(u, index) ==
    vmul(vmul(<< sin((u.time * 55) \div 10 + index * 230),
                 cos((u.time * 52) \div 10 + index * 290) >>,
              Quot(u.wiggleForceScale * u.hoverStrength, Milli)),
         Scale)

\* The forces that pull toward the target, from toTarget and its length.
targetForces(toTarget, targetDist, u) ==
    [ gravity |-> gravityOf(targetDirOf(toTarget, targetDist), u),
      springForce |-> springForceOf(targetDirOf(toTarget, targetDist), targetDist, u) ]

\* The force terms of the thread of a particle at pos with velocity vel.
forcesAt(pos, vel, rest, toTarget, particlesIn, u, index) ==
    [ target |-> targetForces(toTarget, vlength(toTarget), u),
      dampingForce |-> dampingForceOf(vel, u),
      restForce |-> restForceOf(rest, pos, u),
      wiggleForce |-> wiggleForceOf(u, index),
      repulsionForce |->
         repulsionLoop(particlesIn, pos, index, u.massCount, u.repelStrength, 1) ]

\* The nearest mass point of a position (lines 241-253).
nearestOf(massPoints, pos, u) ==
    nearestLoop(massPoints, pos, 1, u.massCount, elementAt(massPoints, 0, ZeroVec))

\* The force terms of thread index (lines 232-308).
forces(particlesIn, massPoints, restTargets, u, index) ==
    forcesAt(elementAt(particlesIn, index, ZeroParticle).position,
             elementAt(particlesIn, index, ZeroParticle).velocity,
             elementAt(restTargets, index, ZeroVec),
             vsub(targetPosOf(nearestOf(massPoints,
                                        elementAt(particlesIn, index, ZeroParticle).position,
                                        u),
                              u, index),
                  elementAt(particlesIn, index, ZeroParticle).position),
             particlesIn, u, index)

\* A mutant of totalForceOf: the rest term is left out.
totalForceNoRest(f) ==
    vadd(f.repulsionForce,
         vadd(f.target.gravity,
              vadd(f.target.springForce, vadd(f.dampingForce, f.wiggleForce))))

\* totalForce (lines 310-319)
totalForceOf(f) ==
    vadd(f.restForce,
         vadd(f.repulsionForce,
              vadd(f.target.gravity,
                   vadd(f.target.springForce, vadd(f.dampingForce, f.wiggleForce)))))

\* A mutant of speedLimit: the velocity is written as it is.
speedLimitNone(velocity, speed, maxSpeed) == velocity

\* The speed limit (lines 326-332)
speedLimit(velocity, speed, maxSpeed) ==
    IF speed > maxSpeed
    THEN << Quot(velocity[1] * maxSpeed, speed), Quot(velocity[2] * maxSpeed, speed) >>
    ELSE velocity

maxSpeedOf(u) == Quot(mix(800, 3200, u.hoverStrength) * Scale, Milli)

\* particle.position = pos + velocity * dt (line 335), and the particle written
moved(pos, velocity, u) ==
    [position |-> vadd(pos, vmul(velocity, u.deltaTime)), velocity |-> velocity]

\* velocity = vel * damping + totalForce * dt (lines 322-323)
acceleratedBy(vel, totalForce, u) ==
    vadd(vmul(vel, mix(800, 950, u.hoverStrength)), vmul(totalForce, u.deltaTime))

integrate(particle, velocity, u) ==
    moved(particle.position, speedLimit(velocity, vlength(velocity), maxSpeedOf(u)), u)

\* simulate(index): the particle the thread writes to particlesOut[index].
simulate(particlesIn, massPoints, restTargets, u, index) ==
    integrate(elementAt(particlesIn, index, ZeroParticle),
              acceleratedBy(elementAt(particlesIn, index, ZeroParticle).velocity,
                            totalForceOf(forces(particlesIn, massPoints, restTargets,
                                                u, index)),
                            u),
              u)

(***************************************************************************)
(* createParticleSystem and the frame loop.                                *)
(***************************************************************************)
MaxSystems == 3
MaxFrames == 3

Systems == 1..MaxSystems

NoOptions ==
    [ particleCount |-> 0, edgeWeight |-> 0, scatter |-> 0, seed |-> 0,
      gravityStrength |-> 0, wiggleOffsetScale |-> 0, wiggleForceScale |-> 0,
      repelStrength |-> 0 ]

NoUniforms ==
    [ deltaTime |-> 0, hoverStrength |-> 0, time |-> 0, aspectRatio |-> 0,
      gravityStrength |-> 0, massCount |-> 0, wiggleOffsetScale |-> 0,
      wiggleForceScale |-> 0, repelStrength |-> 0 ]

NoDispatch == [bindGroup |-> -1, particlesIn |-> -1, particlesOut |-> -1, threads |-> 0]
NoDraw == [buffer |-> -1, instances |-> 0, aspectRatio |-> 0]

\* A system before createParticleSystem is called for it.  stage is where
\* the call stands: "none", "init" (awaiting tgpu.init()), "logo" (awaiting
\* generateLogoPoints), "resolved" or "rejected".
NoSystem ==
    [ stage |-> "none", message |-> "", options |-> NoOptions,
      root |-> "none",
      particleBuffers |-> [b \in 0..1 |-> << >>],
      massBuffer |-> << >>, restBuffer |-> << >>,
      logoMassPoints |-> << >>, restPositions |-> << >>,
      uniforms |-> NoUniforms,
      isHovering |-> FALSE, hoverTransition |-> 0, time |-> 0, lastTime |-> 0,
      frameId |-> 0, even |-> FALSE,
      frames |-> 0, dispatch |-> NoDispatch, draw |-> NoDraw,
      massWrites |-> 0, restWrites |-> 0 ]

\* canvas.width / canvas.height, in thousandths
canvasAspect == (16 * Milli) \div 9

\* A mutant of computeBindGroups: a bind group writes the buffer it reads.
computeBindGroupsInPlace ==
    [ idx \in 0..1 |-> [particlesIn |-> idx, particlesOut |-> idx] ]

\* A mutant of computeBindGroups: both bind groups are built for idx = 0.
computeBindGroupsSame ==
    [ idx \in 0..1 |-> [particlesIn |-> 0, particlesOut |-> 1] ]

\* computeBindGroups[idx]: which particle buffer is bound as particlesIn and
\* which as particlesOut.
computeBindGroups ==
    [ idx \in 0..1 |-> [particlesIn |-> idx, particlesOut |-> 1 - idx] ]

\* A mutant of renderBuffer: the instance buffer is the one just read.
renderBufferStale(even) == IF even THEN 0 ELSE 1

\* The particle buffer the render pass draws: particleBuffers[even ? 1 : 0].
renderBuffer(even) == IF even THEN 1 ELSE 0

\* buffer.write(values): the elements of a buffer of fixed size are replaced
\* by the values given for them.
bufferWrite(buffer, values) ==
    [ k \in DOMAIN buffer |-> IF k \in DOMAIN values THEN values[k] ELSE buffer[k] ]

\* root.createBuffer(d.arrayOf(T, n)): n zero elements
createBuffer(n, zero) == [ k \in 1..n |-> zero ]

\* One thread of a dispatch, run on the particle buffers as they are: it
\* reads particlesIn, massPoints and restTargets and writes
\* particlesOut[index] (lines 229-338); k is index + 1.
threadRun(buffers, massBuffer, restBuffer, u, group, k) ==
    [ buffers EXCEPT
        ![group.particlesOut] =
           [ @ EXCEPT ![k] = simulate(buffers[group.particlesIn], massBuffer,
                                      restBuffer, u, k - 1) ] ]

\* The threads of a dispatch run one after the other, in the order given.
RECURSIVE threadsRun(_, _, _, _, _, _)
threadsRun(buffers, massBuffer, restBuffer, u, group, order) ==
    IF order = << >> THEN buffers
    ELSE threadsRun(threadRun(buffers, massBuffer, restBuffer, u, group, Head(order)),
                    massBuffer, restBuffer, u, group, Tail(order))

\* A mutant of dispatchThreads: the thread also stores the position it
\* computed as its rest target.
dispatchThreadsRest(s, u, group, threads) ==
    [ particleBuffers |->
         [ s.particleBuffers EXCEPT
             ![group.particlesOut] =
                [ k \in DOMAIN s.particleBuffers[group.particlesOut] |->
                     IF k <= threads
                     THEN simulate(s.particleBuffers[group.particlesIn],
                                   s.massBuffer, s.restBuffer, u, k - 1)
                     ELSE s.particleBuffers[group.particlesOut][k] ] ],
      massBuffer |-> s.massBuffer,
      restBuffer |->
         [ k \in DOMAIN s.restBuffer |->
              IF k <= threads
              THEN simulate(s.particleBuffers[group.particlesIn],
                            s.massBuffer, s.restBuffer, u, k - 1).position
              ELSE s.restBuffer[k] ] ]

\* dispatchThreads(particleCount) with a bind group: the storage buffers after
\* the dispatch.  Thread index reads particlesIn, massPoints and restTargets
\* and writes particlesOut[index], when the buffer has that element.
dispatchThreads(s, u, group, threads) ==
    [ particleBuffers |->
         [ s.particleBuffers EXCEPT
             ![group.particlesOut] =
                [ k \in DOMAIN s.particleBuffers[group.particlesOut] |->
                     IF k <= threads
                     THEN simulate(s.particleBuffers[group.particlesIn],
                                   s.massBuffer, s.restBuffer, u, k - 1)
                     ELSE s.particleBuffers[group.particlesOut][k] ] ],
      massBuffer |-> s.massBuffer,
      restBuffer |-> s.restBuffer ]

\* A mutant of hoverStep: the rate of the rise is 25.0.
hoverStepFast(hoverTransition, targetHover, dt) ==
    hoverTransition
       + Quot((targetHover - hoverTransition) * dt
                 * (IF targetHover > hoverTransition THEN 250 ELSE 12),
              10 * Milli)

\* hoverTransition += (targetHover - hoverTransition) * dt * rate (lines 458-460)
hoverStep(hoverTransition, targetHover, dt) ==
    hoverTransition
       + Quot((targetHover - hoverTransition) * dt
                 * (IF targetHover > hoverTransition THEN 50 ELSE 12),
              10 * Milli)

\* The uniforms animate() writes (lines 463-473)
uniformsOf(s, dt, hoverTransition) ==
    [ deltaTime |-> dt,
      hoverStrength |-> hoverTransition,
      time |-> s.time + dt,
      aspectRatio |-> canvasAspect,
      gravityStrength |-> s.options.gravityStrength,
      massCount |-> Len(s.logoMassPoints),
      wiggleOffsetScale |-> s.options.wiggleOffsetScale,
      wiggleForceScale |-> s.options.wiggleForceScale,
      repelStrength |-> s.options.repelStrength ]

\* A mutant of drawInstances: the arguments of draw are exchanged.
drawInstancesSwapped(s) == 6

\* .draw(6, particleCount) (line 491): the number of instances drawn
drawInstances(s) == s.options.particleCount

\* The state of the system after a frame that left the storage buffers as in
\* stored (lines 463-491).
frameWith(s, t, u, even, stored) ==
    [ s EXCEPT
        !.lastTime = t,
        !.time = u.time,
        !.hoverTransition = u.hoverStrength,
        !.uniforms = u,
        !.even = even,
        !.particleBuffers = stored.particleBuffers,
        !.massBuffer = stored.massBuffer,
        !.restBuffer = stored.restBuffer,
        !.dispatch = [ bindGroup |-> IF even THEN 0 ELSE 1,
                       particlesIn |-> computeBindGroups[IF even THEN 0 ELSE 1].particlesIn,
                       particlesOut |-> computeBindGroups[IF even THEN 0 ELSE 1].particlesOut,
                       threads |-> s.options.particleCount ],
        !.draw = [ buffer |-> renderBuffer(even),
                   instances |-> drawInstances(s),
                   aspectRatio |-> u.aspectRatio ],
        !.frames = s.frames + 1 ]

\* A mutant of frame: the compute pass runs before the uniforms are written.
frameEarlyDispatch(s, t, u, even) ==
    CHOOSE f \in { frameWith(s, t, u, even, stored) :
                     stored \in { dispatchThreads(s, s.uniforms,
                                                  computeBindGroups[IF even THEN 0 ELSE 1],
                                                  s.options.particleCount) } } : TRUE

\* animate() from the write of the uniforms to the draw (lines 463-491): the
\* compute pass with computeBindGroups[even ? 0 : 1], then the render pass.
frame(s, t, u, even) ==
    CHOOSE f \in { frameWith(s, t, u, even, stored) :
                     stored \in { dispatchThreads(s, u, computeBindGroups[IF even THEN 0 ELSE 1],
                                                  s.options.particleCount) } } : TRUE

\* The body of animate() up to the request of the next frame, for the system
\* record s, at the time t of performance.now(): dt is clamped to 0.05 s.
animateBody(s, t) ==
    frame(s, t,
          uniformsOf(s, Min(t - s.lastTime, 50),
                     hoverStep(s.hoverTransition, IF s.isHovering THEN Milli ELSE 0,
                               Min(t - s.lastTime, 50))),
          ~s.even)

\* A mutant of cancelAnimationFrame: the request before the one named is
\* cancelled.
cancelAnimationFramePrevious(queue, id) == { r \in queue : r.id # id - 1 }

\* cancelAnimationFrame(frameId) (line 503): the request of that id is taken
\* out of the requests the browser holds.
cancelAnimationFrame(queue, id) == { r \in queue : r.id # id }

\* No system was created, no frame requested.
IdleSystems ==
    /\ sys = [i \in Systems |-> NoSystem]
    /\ rafQueue = {}
    /\ nextFrameId = 1
    /\ now = 0

NoInit == [effect |-> 0, pc |-> "none"]

\* The App component before it is mounted: error is null (""), loading true.
NoApp ==
    [ phase |-> "unmounted", error |-> "", loading |-> TRUE,
      params |-> NoOptions, particleSystemRef |-> 0, effect |-> 0, gui |-> 0,
      calls |-> 0 ]

IdleApp ==
    /\ gpu = TRUE
    /\ app = NoApp
    /\ effectMounted = [k \in Systems |-> FALSE]
    /\ inits = [i \in Systems |-> NoInit]

\* A promise reaction is waiting to run: a createParticleSystem whose logo
\* promise has settled, or an init whose createParticleSystem has.  The
\* browser runs these before it runs another task (an event, a timer, an
\* animation frame, the completion of a request).
MicrotaskPending ==
    \E i \in Systems :
       \/ /\ sys[i].stage = "logo"
          /\ logoPixelPositionsCache[sys[i].options.edgeWeight].state
                \in {"resolved", "rejected"}
       \/ /\ sys[i].stage \in {"resolved", "rejected"}
          /\ inits[i].pc = "awaiting"

\* createParticleSystem(canvas, options) up to its first await, tgpu.init().
CreateCall(i, options) ==
    /\ sys[i].stage = "none"
    /\ sys' = [sys EXCEPT ![i] = [NoSystem EXCEPT !.stage = "init", !.options = options]]
    /\ UNCHANGED <<rafQueue, nextFrameId, now, samplerVars, appVars>>

\* tgpu.init() has settled: from there to the await of generateLogoPoints,
\* which has called loadLogoPixelPositions.  tgpu.init() may reject, and
\* canvas.getContext("webgpu") may give null.
CreateRoot(i, outcome) ==
    /\ ~MicrotaskPending
    /\ sys[i].stage = "init"
    /\ IF outcome = "initRejects"
       THEN /\ sys' = [sys EXCEPT ![i].stage = "rejected",
                                  ![i].message = "No GPU adapter"]
            /\ UNCHANGED <<logoPixelPositionsCache, fetches>>
       ELSE IF outcome = "noContext"
       THEN /\ sys' = [sys EXCEPT ![i].stage = "rejected",
                                  ![i].root = "live",
                                  ![i].message = "WebGPU not supported"]
            /\ UNCHANGED <<logoPixelPositionsCache, fetches>>
       ELSE /\ sys' =
                 [sys EXCEPT
                    ![i].stage = "logo",
                    ![i].root = "live",
                    ![i].particleBuffers =
                       [b \in 0..1 |-> createBuffer(sys[i].options.particleCount, ZeroParticle)],
                    ![i].massBuffer = createBuffer(sys[i].options.particleCount, ZeroVec),
                    ![i].restBuffer = createBuffer(sys[i].options.particleCount, ZeroVec)]
            /\ LoadLogoCall(sys[i].options.edgeWeight)
    /\ UNCHANGED <<bitmap, rafQueue, nextFrameId, now, appVars>>

\* Lines 193-211 and 444-449: the data is generated and written to the
\* buffers, and the state of the loop is initialised at the time t.
writeData(s, init, t) ==
    [ s EXCEPT
        !.stage = "resolved",
        !.logoMassPoints = init.logoMassPoints,
        !.restPositions = init.restPositions,
        !.particleBuffers =
           [b \in 0..1 |-> bufferWrite(s.particleBuffers[b], init.initialParticles)],
        !.massBuffer = bufferWrite(s.massBuffer, init.logoMassPoints),
        !.restBuffer = bufferWrite(s.restBuffer, init.restPositions),
        !.massWrites = s.massWrites + 1,
        !.restWrites = s.restWrites + 1,
        !.isHovering = FALSE,
        !.hoverTransition = 0,
        !.time = 0,
        !.lastTime = t,
        !.even = FALSE ]

writeInitial(s, t) ==
    CHOOSE w \in { writeData(s, init, t) :
                      init \in { initialData(logoPixelPositionsCache[s.options.edgeWeight].value,
                                             s.options) } } : TRUE

\* The cached promise has settled: the rest of createParticleSystem.  When
\* the promise is rejected the call rejects with its error; else the data is
\* generated and written, animate() runs the first frame and requests the
\* second, and the call resolves.
CreateFinish(i) ==
    /\ sys[i].stage = "logo"
    /\ logoPixelPositionsCache[sys[i].options.edgeWeight].state \in {"resolved", "rejected"}
    /\ IF logoPixelPositionsCache[sys[i].options.edgeWeight].state = "rejected"
       THEN /\ sys' = [sys EXCEPT
                         ![i].stage = "rejected",
                         ![i].message =
                            logoPixelPositionsCache[sys[i].options.edgeWeight].message]
            /\ UNCHANGED <<rafQueue, nextFrameId>>
       ELSE /\ \E written \in { writeInitial(sys[i], now) } :
                  sys' = [sys EXCEPT ![i] =
                            [animateBody(written, now) EXCEPT !.frameId = nextFrameId]]
            /\ rafQueue' = rafQueue \cup { [id |-> nextFrameId, system |-> i] }
            /\ nextFrameId' = nextFrameId + 1
    /\ UNCHANGED <<bitmap, logoPixelPositionsCache, fetches, now, appVars>>

\* The time between two animation frames, in milliseconds.
FrameGaps == {16, 100}

\* The browser runs a requested animation frame callback: animate().
Animate(i, gap) ==
    /\ ~MicrotaskPending
    /\ \E r \in rafQueue :
          /\ r.system = i
          /\ rafQueue' = (rafQueue \ {r}) \cup { [id |-> nextFrameId, system |-> i] }
    /\ sys[i].frames < MaxFrames
    /\ now' = now + gap
    /\ sys' = [sys EXCEPT ![i] =
                 [animateBody(sys[i], now + gap) EXCEPT !.frameId = nextFrameId]]
    /\ nextFrameId' = nextFrameId + 1
    /\ UNCHANGED <<samplerVars, appVars>>

\* setHovering(h) of the system
SetHovering(i, h) ==
    /\ sys[i].stage = "resolved"
    /\ sys' = [sys EXCEPT ![i].isHovering = h]
    /\ UNCHANGED <<rafQueue, nextFrameId, now, samplerVars, appVars>>

\* destroy() of the system
Destroy(i) ==
    /\ sys[i].stage = "resolved"
    /\ rafQueue' = cancelAnimationFrame(rafQueue, sys[i].frameId)
    /\ sys' = [sys EXCEPT ![i].root = "destroyed"]
    /\ UNCHANGED <<nextFrameId, now, samplerVars, appVars>>

\* The body of the promise runs to its end.
LoadLogoSettle(e) ==
    /\ ~MicrotaskPending
    /\ logoPixelPositionsCache[e].state = "pending"
    /\ \E env \in EnvOutcomes :
          logoPixelPositionsCache' =
             [logoPixelPositionsCache EXCEPT ![e] = logoPromiseResult(bitmap, e, env)]
    /\ UNCHANGED <<bitmap, fetches, systemVars, appVars>>

(***************************************************************************)
(* A particle system on its own: one call of createParticleSystem, and a   *)
(* caller of setHovering and destroy.                                      *)
(***************************************************************************)
MaxParticles == 3

\* The logos of the runs that are not about the sampler: a full square, a
\* ring, a single pixel and an empty image.
SmallBitmaps ==
    { [width |-> 3, height |-> 3, alpha |-> [k \in 0..8 |-> 255]],
      [width |-> 3, height |-> 3, alpha |-> [k \in 0..8 |-> IF k = 4 THEN 0 ELSE 255]],
      [width |-> 2, height |-> 1, alpha |-> [k \in 0..1 |-> IF k = 0 THEN 1 ELSE 0]],
      [width |-> 2, height |-> 2, alpha |-> [k \in 0..3 |-> 0]] }

\* The defaults of App (lines 114-121), with the particle count and the
\* scatter the caller gives: scatter 0.3, gravity 0.08, wiggle offset 0.003,
\* wiggle force 0.1, repel 10, seed 409969, edge weight 5.
DefaultScatter == (3 * Scale) \div 10
DefaultOptions ==
    [ particleCount |-> 2, edgeWeight |-> 5, scatter |-> DefaultScatter,
      seed |-> 409969, gravityStrength |-> 80, wiggleOffsetScale |-> 3,
      wiggleForceScale |-> 100, repelStrength |-> 10 ]

ParticleOptions ==
    { [DefaultOptions EXCEPT !.particleCount = n, !.edgeWeight = e,
                             !.scatter = sc, !.seed = sd] :
         n \in 1..MaxParticles, e \in {2, 5},
         sc \in {0, (5 * Scale) \div 100, DefaultScatter}, sd \in {1, 409969} }

RootOutcomes == {"ok", "initRejects", "noContext"}

ParticleInit ==
    /\ bitmap \in SmallBitmaps
    /\ logoPixelPositionsCache = [e \in EdgeWeights |-> Absent]
    /\ fetches = 0
    /\ IdleSystems
    /\ IdleApp

ParticleNext ==
    \/ \E options \in ParticleOptions : CreateCall(1, options)
    \/ \E outcome \in RootOutcomes : CreateRoot(1, outcome)
    \/ \E e \in EdgeWeights : LoadLogoSettle(e)
    \/ CreateFinish(1)
    \/ \E gap \in FrameGaps : Animate(1, gap)
    \/ \E h \in BOOLEAN : SetHovering(1, h)
    \/ Destroy(1)

ParticleSpec == ParticleInit /\ [][ParticleNext]_vars

(***************************************************************************)
(* Claims about one particle system.                                       *)
(***************************************************************************)
\* The step is a frame of system i.
FrameOf(i) == sys'[i].frames = sys[i].frames + 1

\* C1: in every frame the compute dispatch reads one particle buffer and
\* writes the other, and the buffer it reads is left as it was: the first
\* frame reads the initial particles, and from the second frame on the
\* buffer read is the buffer the frame before wrote.
C1_PingPong ==
    [][ \A i \in Systems :
           FrameOf(i) =>
              /\ sys'[i].dispatch.particlesIn \in 0..1
              /\ sys'[i].dispatch.particlesOut \in 0..1
              /\ sys'[i].dispatch.particlesIn # sys'[i].dispatch.particlesOut
              /\ sys[i].frames >= 1 =>
                    /\ sys'[i].dispatch.particlesIn = sys[i].dispatch.particlesOut
                    /\ sys'[i].particleBuffers[sys'[i].dispatch.particlesIn]
                          = sys[i].particleBuffers[sys'[i].dispatch.particlesIn]
              /\ sys[i].frames = 0 =>
                    \A k \in 1..sys'[i].options.particleCount :
                       sys'[i].particleBuffers[sys'[i].dispatch.particlesIn][k]
                          = [position |-> sys'[i].restPositions[k], velocity |-> <<0, 0>>] ]_vars

\* Three frames have run, the last one moving a particle.
C1_Witness ==
    \E i \in Systems :
       /\ sys[i].frames >= 3
       /\ sys[i].particleBuffers[0] # sys[i].particleBuffers[1]

\* C2: from their creation on, both particle buffers, the mass buffer and
\* the rest buffer of a system created with particleCount = N hold N
\* elements; once the data is generated, logoMassPoints and restPositions
\* have length N, and the massCount uniform of every frame is N.
C2_Lengths ==
    \A i \in Systems :
       LET n == sys[i].options.particleCount
       IN  /\ sys[i].stage \in {"logo", "resolved"} =>
                /\ Len(sys[i].particleBuffers[0]) = n
                /\ Len(sys[i].particleBuffers[1]) = n
                /\ Len(sys[i].massBuffer) = n
                /\ Len(sys[i].restBuffer) = n
           /\ sys[i].stage = "resolved" =>
                /\ Len(sys[i].logoMassPoints) = n
                /\ Len(sys[i].restPositions) = n
           /\ sys[i].frames >= 1 => sys[i].uniforms.massCount = n

C2_Witness ==
    \E i \in Systems :
       /\ sys[i].options.particleCount = MaxParticles
       /\ sys[i].frames >= 2
       /\ sys[i].root = "destroyed"

\* C4: the render pass of a frame draws the particle buffer that the compute
\* dispatch of the same frame wrote, not the one it read.
C4_DrawsOutput ==
    \A i \in Systems :
       sys[i].frames >= 1 =>
          /\ sys[i].draw.buffer = sys[i].dispatch.particlesOut
          /\ sys[i].draw.buffer # sys[i].dispatch.particlesIn
          /\ sys[i].dispatch.bindGroup = (IF sys[i].even THEN 0 ELSE 1)

\* A frame of each parity has run.
C4_Witness ==
    \E i \in Systems : sys[i].frames >= 2 /\ ~sys[i].even /\ sys[i].draw.buffer = 0

\* C9: the mass buffer and the rest buffer are written once, before the
\* first frame, and hold logoMassPoints and restPositions ever after: no
\* frame and no call of setHovering changes them.
C9_StaticBuffers ==
    \A i \in Systems :
       /\ sys[i].frames >= 1 =>
             /\ sys[i].massWrites = 1
             /\ sys[i].restWrites = 1
             /\ \A k \in 1..sys[i].options.particleCount :
                   /\ sys[i].massBuffer[k] = sys[i].logoMassPoints[k]
                   /\ sys[i].restBuffer[k] = sys[i].restPositions[k]
       /\ sys[i].frames = 0 => sys[i].massWrites = 0 /\ sys[i].restWrites = 0

\* Frames have run, hovered, and have moved the particles off their rest
\* positions.
C9_Witness ==
    \E i \in Systems :
       /\ sys[i].frames >= 3
       /\ sys[i].isHovering
       /\ sys[i].uniforms.hoverStrength > 0
       /\ \E k \in 1..sys[i].options.particleCount :
             sys[i].particleBuffers[sys[i].draw.buffer][k].position # sys[i].restBuffer[k]

SquaredDistance(a, b) == (a[1] - b[1]) * (a[1] - b[1]) + (a[2] - b[2]) * (a[2] - b[2])

\* C10: rest point k lies within scatter of mass point k (the one of the
\* same index), and on it when scatter is 0.
C10_RestNearMass ==
    \A i \in Systems :
       sys[i].stage = "resolved" =>
          \A k \in 1..sys[i].options.particleCount :
             SquaredDistance(sys[i].restPositions[k], sys[i].logoMassPoints[k])
                <= sys[i].options.scatter * sys[i].options.scatter

\* Two mass points further apart than the scatter, each with a rest point
\* off it.
C10_Witness ==
    \E i \in Systems :
       /\ sys[i].stage = "resolved"
       /\ sys[i].options.scatter > 0
       /\ \E k, l \in 1..Len(sys[i].logoMassPoints) :
             /\ SquaredDistance(sys[i].logoMassPoints[k], sys[i].logoMassPoints[l])
                   > sys[i].options.scatter * sys[i].options.scatter
             /\ sys[i].restPositions[k] # sys[i].logoMassPoints[k]
             /\ sys[i].restPositions[l] # sys[i].logoMassPoints[l]

\* C11: the particle count of a system is the one it was created with and
\* no step changes it; every frame dispatches that many compute threads
\* and draws that many instances.
C11_CountFixed ==
    [][ \A i \in Systems :
           /\ sys[i].stage # "none" =>
                 sys'[i].options.particleCount = sys[i].options.particleCount
           /\ sys'[i].frames >= 1 =>
                 /\ sys'[i].dispatch.threads = sys'[i].options.particleCount
                 /\ sys'[i].draw.instances = sys'[i].options.particleCount ]_vars

\* Frames have run with the hover on, and the system was destroyed.
C11_Witness ==
    \E i \in Systems :
       /\ sys[i].options.particleCount = MaxParticles
       /\ sys[i].frames >= 3
       /\ sys[i].isHovering
       /\ sys[i].root = "destroyed"
       /\ sys[i].draw.instances = MaxParticles

\* C12: a frame writes all nine uniform fields (the time step, the hover
\* blend, the time and the aspect ratio of this frame, and the five values
\* of the options), its dispatch computes the output buffer from the input
\* buffer with the uniforms of this frame, its draw uses them too, and it
\* requests one next frame.
C12_FrameOrder ==
    [][ \A i \in Systems :
           FrameOf(i) =>
              LET dt == IF sys[i].frames = 0 THEN 0 ELSE Min(now' - sys[i].lastTime, 50)
                  u == sys'[i].uniforms
                  group == sys'[i].dispatch
              IN  /\ u.deltaTime = dt
                  /\ u.hoverStrength = sys'[i].hoverTransition
                  /\ u.time = sys'[i].time
                  /\ sys'[i].time = (IF sys[i].frames = 0 THEN 0 ELSE sys[i].time) + dt
                  /\ u.aspectRatio = canvasAspect
                  /\ u.gravityStrength = sys'[i].options.gravityStrength
                  /\ u.massCount = sys'[i].options.particleCount
                  /\ u.wiggleOffsetScale = sys'[i].options.wiggleOffsetScale
                  /\ u.wiggleForceScale = sys'[i].options.wiggleForceScale
                  /\ u.repelStrength = sys'[i].options.repelStrength
                  /\ \A k \in 1..sys'[i].options.particleCount :
                        sys'[i].particleBuffers[group.particlesOut][k]
                           = simulate(sys'[i].particleBuffers[group.particlesIn],
                                      sys'[i].massBuffer, sys'[i].restBuffer, u, k - 1)
                  /\ sys'[i].draw.aspectRatio = u.aspectRatio
                  /\ nextFrameId' = nextFrameId + 1
                  /\ sys'[i].frameId = nextFrameId
                  /\ { r.id : r \in { q \in rafQueue' : q.system = i } } = {nextFrameId} ]_vars

\* A frame with a full time step and the hover on has changed the uniforms
\* of the frame before.
C12_Witness ==
    \E i \in Systems :
       /\ sys[i].frames >= 3
       /\ sys[i].uniforms.deltaTime = 50
       /\ sys[i].uniforms.hoverStrength > 0
       /\ sys[i].uniforms.time >= 66

\* The force terms of thread k of the last frame of system i, from the
\* buffer the frame read and the uniforms it wrote.
LastForces(i, k) ==
    forces(sys[i].particleBuffers[sys[i].dispatch.particlesIn],
           sys[i].massBuffer, sys[i].restBuffer, sys[i].uniforms, k - 1)

\* The particle thread k of the last frame of system i wrote, had the force
\* on it been total.
WrittenWith(i, k, total) ==
    integrate(sys[i].particleBuffers[sys[i].dispatch.particlesIn][k],
              acceleratedBy(sys[i].particleBuffers[sys[i].dispatch.particlesIn][k].velocity,
                            total, sys[i].uniforms),
              sys[i].uniforms)

SumFive(f) ==
    << f.target.springForce[1] + f.dampingForce[1] + f.repulsionForce[1]
          + f.restForce[1] + f.wiggleForce[1],
       f.target.springForce[2] + f.dampingForce[2] + f.repulsionForce[2]
          + f.restForce[2] + f.wiggleForce[2] >>

SumSix(f) == vadd(SumFive(f), f.target.gravity)

\* C13 as the specification states it: the force applied to a particle in a
\* frame is the sum of the spring, damping, repulsion, rest and wiggle
\* terms, and of nothing else.
C13_FiveTerms ==
    \A i \in Systems :
       sys[i].frames >= 1 =>
          \A k \in 1..sys[i].options.particleCount :
             sys[i].particleBuffers[sys[i].dispatch.particlesOut][k]
                = WrittenWith(i, k, SumFive(LastForces(i, k)))

\* C13, amended: the force applied to a particle in a frame is the sum of
\* six terms: spring, damping, repulsion, rest, wiggle, and the gravity
\* toward the target, targetDir * gravityStrength * hover.
C13_SixTerms ==
    \A i \in Systems :
       sys[i].frames >= 1 =>
          \A k \in 1..sys[i].options.particleCount :
             sys[i].particleBuffers[sys[i].dispatch.particlesOut][k]
                = WrittenWith(i, k, SumSix(LastForces(i, k)))

\* A frame in which each of the six terms pushed a particle.
C13_Witness ==
    \E i \in Systems :
       /\ sys[i].frames >= 2
       /\ \E k \in 1..sys[i].options.particleCount :
             /\ LastForces(i, k).target.gravity # <<0, 0>>
             /\ LastForces(i, k).target.springForce # <<0, 0>>
             /\ LastForces(i, k).dampingForce # <<0, 0>>
             /\ LastForces(i, k).repulsionForce # <<0, 0>>
             /\ LastForces(i, k).restForce # <<0, 0>>
             /\ LastForces(i, k).wiggleForce # <<0, 0>>

\* Mass buffers of n points other than the one of the system.
OtherMassBuffers(n) ==
    { [j \in 1..n |-> p] : p \in { <<0, 0>>, <<Scale, Scale>>, <<-Scale, 7>> } }

\* The buffer the last frame of system i read.
LastInput(i) == sys[i].particleBuffers[sys[i].dispatch.particlesIn]

\* C14: in a frame with hoverStrength 0 the gravity, the spring and the
\* wiggle force are zero and the target is the nearest mass point with no
\* offset; the particle written is the one written for any other mass
\* points.
C14_NoHover ==
    \A i \in Systems :
       (sys[i].frames >= 1 /\ sys[i].uniforms.hoverStrength = 0) =>
          \A k \in 1..sys[i].options.particleCount :
             /\ LastForces(i, k).target.gravity = <<0, 0>>
             /\ LastForces(i, k).target.springForce = <<0, 0>>
             /\ LastForces(i, k).wiggleForce = <<0, 0>>
             /\ targetPosOf(nearestOf(sys[i].massBuffer, LastInput(i)[k].position,
                                      sys[i].uniforms),
                            sys[i].uniforms, k - 1)
                   = nearestOf(sys[i].massBuffer, LastInput(i)[k].position, sys[i].uniforms)
             /\ \A other \in OtherMassBuffers(sys[i].options.particleCount) :
                   sys[i].particleBuffers[sys[i].dispatch.particlesOut][k]
                      = simulate(LastInput(i), other, sys[i].restBuffer,
                                 sys[i].uniforms, k - 1)

\* A frame without hover moved a particle that is off its nearest mass
\* point.
C14_Witness ==
    \E i \in Systems :
       /\ sys[i].frames >= 2
       /\ sys[i].uniforms.hoverStrength = 0
       /\ sys[i].uniforms.deltaTime > 0
       /\ \E k \in 1..sys[i].options.particleCount :
             /\ sys[i].particleBuffers[sys[i].dispatch.particlesOut][k] # LastInput(i)[k]
             /\ SquaredDistance(LastInput(i)[k].position,
                                nearestOf(sys[i].massBuffer, LastInput(i)[k].position,
                                          sys[i].uniforms)) > 100

\* C17: hoverTransition is 0 until the first frame and in [0, 1] ever
\* after; a frame moves it from where it was toward the target, 1 when
\* hovering and 0 when not, by at most a quarter of the gap, and never past
\* the target.
C17_HoverRange ==
    [][ \A i \in Systems :
           /\ sys'[i].frames = 0 => sys'[i].hoverTransition = 0
           /\ 0 <= sys'[i].hoverTransition /\ sys'[i].hoverTransition <= Milli
           /\ FrameOf(i) =>
                 LET before == IF sys[i].frames = 0 THEN 0 ELSE sys[i].hoverTransition
                     target == IF sys'[i].isHovering THEN Milli ELSE 0
                     after == sys'[i].hoverTransition
                 IN  /\ target >= before =>
                           /\ before <= after /\ after <= target
                           /\ 4 * (after - before) <= target - before
                     /\ target <= before =>
                           /\ target <= after /\ after <= before
                           /\ 4 * (before - after) <= before - target
           /\ ~FrameOf(i) => sys'[i].hoverTransition = sys[i].hoverTransition ]_vars

\* The hover rose in a frame of a full time step and fell in the next.
C17_Witness ==
    \E i \in Systems :
       /\ sys[i].frames >= 3
       /\ ~sys[i].isHovering
       /\ sys[i].hoverTransition > 0
       /\ sys[i].hoverTransition < 250
       /\ sys[i].uniforms.deltaTime = 50

\* The orders in which n threads can run.
Orders(n) == { o \in [1..n -> 1..n] : \A a, b \in 1..n : o[a] = o[b] => a = b }

\* The particle buffers of system i before the dispatch of the frame this
\* step runs: those of the state before, or the initial particles when the
\* step writes them.
BeforeDispatch(i) ==
    IF sys[i].frames >= 1 THEN sys[i].particleBuffers
    ELSE [ b \in 0..1 |->
              [ k \in 1..sys'[i].options.particleCount |->
                   [position |-> sys'[i].restPositions[k], velocity |-> <<0, 0>>] ] ]

\* C18: the threads of a dispatch read the input buffer and each writes its
\* own element of the other buffer, so the input buffer is left as it was
\* and the particle buffers after the frame are those that the threads
\* leave when they run one after the other in any order.
C18_ThreadOrder ==
    [][ \A i \in Systems :
           FrameOf(i) =>
              /\ sys'[i].dispatch.particlesIn # sys'[i].dispatch.particlesOut
              /\ sys'[i].particleBuffers[sys'[i].dispatch.particlesIn]
                    = BeforeDispatch(i)[sys'[i].dispatch.particlesIn]
              /\ \A order \in Orders(sys'[i].options.particleCount) :
                    threadsRun(BeforeDispatch(i), sys'[i].massBuffer, sys'[i].restBuffer,
                               sys'[i].uniforms, sys'[i].dispatch, order)
                       = sys'[i].particleBuffers ]_vars

\* A frame of as many threads as a system can have, in which a thread read
\* a neighbour close enough to push its particle.
C18_Witness ==
    \E i \in Systems :
       /\ sys[i].frames >= 2
       /\ sys[i].options.particleCount = MaxParticles
       /\ \E k \in 1..MaxParticles :
             /\ LastForces(i, k).repulsionForce # <<0, 0>>
             /\ sys[i].particleBuffers[sys[i].dispatch.particlesOut][k] # LastInput(i)[k]

(***************************************************************************)
(* A particle system of enough particles for the four neighbours of a      *)
(* thread to be four particles.                                            *)
(***************************************************************************)
\* With 5 particles the neighbours at the steps 1, 13, 25 and 37 are the
\* particles 1, 3, 0 and 2 places on, the third being the particle itself;
\* with 7 they are 1, 6, 4 and 2 places on.
RepulsionCounts == {5, 7}

RepulsionOptions ==
    { [DefaultOptions EXCEPT !.particleCount = n, !.scatter = sc, !.seed = 1] :
         n \in RepulsionCounts, sc \in {0, (5 * Scale) \div 100} }

RepulsionNext ==
    \/ \E options \in RepulsionOptions : CreateCall(1, options)
    \/ \E outcome \in RootOutcomes : CreateRoot(1, outcome)
    \/ \E e \in EdgeWeights : LoadLogoSettle(e)
    \/ CreateFinish(1)
    \/ \E gap \in FrameGaps : Animate(1, gap)
    \/ \E h \in BOOLEAN : SetHovering(1, h)
    \/ Destroy(1)

RepulsionSpec == ParticleInit /\ [][RepulsionNext]_vars

\* The position of the neighbour that thread k of the last frame of system
\* i read at a step of its loop.
NeighbourOf(i, k, step) ==
    LastInput(i)[((k - 1 + step) % sys[i].options.particleCount) + 1].position

\* The push on a particle at pos from a neighbour at other, the distance
\* taken as it is.
PushPlain(pos, other, repelStrength) ==
    LET diff == vsub(pos, other)
        dist == isqrt(vdot(diff, diff))
    IN  IF vdot(diff, diff) < repulsionRadius * repulsionRadius /\ dist > 0
        THEN vmul(<< Quot(diff[1] * Milli, dist), Quot(diff[2] * Milli, dist) >>,
                  (repulsionRadius - dist) * repelStrength)
        ELSE <<0, 0>>

\* The push with the squared distance held at 1e-5 or more: the direction
\* is diff over the held distance, the magnitude is taken from the held
\* distance.
PushHeld(pos, other, repelStrength) ==
    LET diff == vsub(pos, other)
        dist == isqrt(Max(vdot(diff, diff), safeDistFloor))
    IN  IF vdot(diff, diff) < repulsionRadius * repulsionRadius
        THEN vmul(<< Quot(diff[1] * Milli, dist), Quot(diff[2] * Milli, dist) >>,
                  (repulsionRadius - dist) * repelStrength)
        ELSE <<0, 0>>

\* C19 as the specification states it: the repulsion on a particle is the
\* sum over the neighbours 1, 13, 25 and 37 places on of a push away from
\* the neighbour of magnitude (0.05 - distance) * repelStrength, counted
\* when the squared distance is below 0.0025, and zero from the particle
\* itself.
C19_PlainPush ==
    \A i \in Systems :
       sys[i].frames >= 1 =>
          \A k \in 1..sys[i].options.particleCount :
             LastForces(i, k).repulsionForce
                = vadd(vadd(PushPlain(LastInput(i)[k].position, NeighbourOf(i, k, 1),
                                      sys[i].uniforms.repelStrength),
                            PushPlain(LastInput(i)[k].position, NeighbourOf(i, k, 13),
                                      sys[i].uniforms.repelStrength)),
                       vadd(PushPlain(LastInput(i)[k].position, NeighbourOf(i, k, 25),
                                      sys[i].uniforms.repelStrength),
                            PushPlain(LastInput(i)[k].position, NeighbourOf(i, k, 37),
                                      sys[i].uniforms.repelStrength)))

\* C19, amended: the repulsion is that sum with the distance of each push
\* held at sqrt(1e-5) or more, in the direction as in the magnitude: the
\* push is diff / max(distance, sqrt(1e-5)) * (0.05 - max(distance,
\* sqrt(1e-5))) * repelStrength, which is the push of the statement from
\* that distance up, weaker below it, and zero at distance 0, from the
\* particle itself as from a neighbour at the same place.
C19_HeldPush ==
    \A i \in Systems :
       sys[i].frames >= 1 =>
          \A k \in 1..sys[i].options.particleCount :
             /\ LastForces(i, k).repulsionForce
                   = vadd(vadd(PushHeld(LastInput(i)[k].position, NeighbourOf(i, k, 1),
                                        sys[i].uniforms.repelStrength),
                               PushHeld(LastInput(i)[k].position, NeighbourOf(i, k, 13),
                                        sys[i].uniforms.repelStrength)),
                          vadd(PushHeld(LastInput(i)[k].position, NeighbourOf(i, k, 25),
                                        sys[i].uniforms.repelStrength),
                               PushHeld(LastInput(i)[k].position, NeighbourOf(i, k, 37),
                                        sys[i].uniforms.repelStrength)))
             /\ PushHeld(LastInput(i)[k].position, LastInput(i)[k].position,
                         sys[i].uniforms.repelStrength) = <<0, 0>>

\* Five particles: a thread whose third neighbour is its own particle was
\* pushed by two of the others, from different distances, and a third was
\* too far to push.
C19_Witness ==
    \E i \in Systems :
       /\ sys[i].frames >= 2
       /\ sys[i].options.particleCount = 5
       /\ \E k \in 1..5 :
             /\ NeighbourOf(i, k, 25) = LastInput(i)[k].position
             /\ PushHeld(LastInput(i)[k].position, NeighbourOf(i, k, 1),
                         sys[i].uniforms.repelStrength) # <<0, 0>>
             /\ PushHeld(LastInput(i)[k].position, NeighbourOf(i, k, 13),
                         sys[i].uniforms.repelStrength)
                   # PushHeld(LastInput(i)[k].position, NeighbourOf(i, k, 1),
                              sys[i].uniforms.repelStrength)
             /\ \E step \in {1, 13, 37} :
                   SquaredDistance(LastInput(i)[k].position, NeighbourOf(i, k, step))
                      >= repulsionRadius * repulsionRadius

\* A caller of the sampler; one edge weight is asked for in a behaviour.
SamplerCall(e) ==
    /\ \A f \in EdgeWeights \ {e} : logoPixelPositionsCache[f].state = "absent"
    /\ LoadLogoCall(e)
    /\ UNCHANGED <<bitmap, systemVars, appVars>>

SamplerInit ==
    /\ bitmap \in Bitmaps
    /\ logoPixelPositionsCache = [e \in EdgeWeights |-> Absent]
    /\ fetches = 0
    /\ IdleSystems
    /\ IdleApp

SamplerNext ==
    \/ \E e \in EdgeWeights : SamplerCall(e)
    \/ \E e \in EdgeWeights : LoadLogoSettle(e)

SamplerSpec == SamplerInit /\ [][SamplerNext]_vars

(***************************************************************************)
(* Claims about the sampler.                                               *)
(***************************************************************************)
Occurrences(s, v) == Cardinality({ i \in 1..Len(s) : s[i] = v })

\* A pixel is solid when it is inside the image and its alpha is positive.
SolidPixel(img, x, y) ==
    /\ x \in 0..(img.width - 1)
    /\ y \in 0..(img.height - 1)
    /\ img.alpha[y * img.width + x] > 0

EightNeighbours(x, y) ==
    { <<x + dx, y + dy>> : <<dx, dy>> \in ((-1..1) \X (-1..1)) \ { <<0, 0>> } }

FillPixel(img, x, y) ==
    /\ SolidPixel(img, x, y)
    /\ \A n \in EightNeighbours(x, y) : SolidPixel(img, n[1], n[2])

BorderPixel(img, x, y) ==
    /\ SolidPixel(img, x, y)
    /\ \E n \in EightNeighbours(x, y) : ~SolidPixel(img, n[1], n[2])

PixelsOf(img) == (0..(img.width - 1)) \X (0..(img.height - 1))

\* The position a pixel is mapped to, as exact arithmetic gives it.
NdcOf(img, x, y) ==
    << ((2 * x + 1 - img.width) * Scale) \div img.width,
       ((img.height - 2 * y - 1) * Scale) \div img.height >>

FloorHalves(e) == CHOOSE n \in 0..e : 2 * n <= e /\ e < 2 * (n + 1)

\* C5: in a resolved candidate list a transparent pixel never appears, a
\* fill pixel appears exactly once, a border pixel appears exactly
\* 1 + max(1, floor(edgeWeight)) times, and the length of the list is
\* |solid| + max(1, floor(edgeWeight)) * |border|.
C5_SamplerWeights ==
    \A e \in EdgeWeights :
       logoPixelPositionsCache[e].state = "resolved" =>
          LET list == logoPixelPositionsCache[e].value
              w == IF FloorHalves(e) >= 1 THEN FloorHalves(e) ELSE 1
              solid == { p \in PixelsOf(bitmap) : SolidPixel(bitmap, p[1], p[2]) }
              border == { p \in PixelsOf(bitmap) : BorderPixel(bitmap, p[1], p[2]) }
          IN  /\ \A p \in PixelsOf(bitmap) :
                    LET n == Occurrences(list, NdcOf(bitmap, p[1], p[2]))
                    IN  /\ ~SolidPixel(bitmap, p[1], p[2]) => n = 0
                        /\ FillPixel(bitmap, p[1], p[2]) => n = 1
                        /\ BorderPixel(bitmap, p[1], p[2]) => n = 1 + w
              /\ Len(list) = Cardinality(solid) + w * Cardinality(border)

\* A list was produced from an image that has a transparent pixel, a fill
\* pixel and a border pixel, with an edge weight whose floor is above 1.
C5_Witness ==
    \E e \in EdgeWeights :
       /\ logoPixelPositionsCache[e].state = "resolved"
       /\ FloorHalves(e) >= 2
       /\ \E p \in PixelsOf(bitmap) : ~SolidPixel(bitmap, p[1], p[2])
       /\ \E p \in PixelsOf(bitmap) : FillPixel(bitmap, p[1], p[2])
       /\ \E p \in PixelsOf(bitmap) : BorderPixel(bitmap, p[1], p[2])

\* C15: every point of a candidate list lies strictly inside the unit
\* square, it is the point ((2x+1)/width - 1, (2(height-y)-1)/height - 1) of
\* a solid pixel (x, y), every solid pixel has its point in the list, and
\* along the fill list, which is in the order of the rows, y never grows:
\* row 0 has the largest y.
C15_InsideNdc ==
    \A e \in EdgeWeights :
       logoPixelPositionsCache[e].state = "resolved" =>
          LET list == logoPixelPositionsCache[e].value
              solid == { p \in PixelsOf(bitmap) : SolidPixel(bitmap, p[1], p[2]) }
          IN  /\ \A j \in 1..Len(list) :
                    /\ -Scale < list[j][1] /\ list[j][1] < Scale
                    /\ -Scale < list[j][2] /\ list[j][2] < Scale
                    /\ \E p \in solid : list[j] = NdcOf(bitmap, p[1], p[2])
              /\ \A p \in solid : \E j \in 1..Len(list) : list[j] = NdcOf(bitmap, p[1], p[2])
              /\ \A j, l \in 1..Cardinality(solid) : j < l => list[j][2] >= list[l][2]
              /\ \A p \in solid :
                    p[2] > 0 => NdcOf(bitmap, p[1], p[2])[2] < NdcOf(bitmap, p[1], 0)[2]

\* The list of an image with solid pixels in its four corners, of more
\* than one row and more than one column.
C15_Witness ==
    \E e \in EdgeWeights :
       /\ logoPixelPositionsCache[e].state = "resolved"
       /\ bitmap.width >= 3
       /\ bitmap.height >= 2
       /\ \A x \in {0, bitmap.width - 1}, y \in {0, bitmap.height - 1} :
             SolidPixel(bitmap, x, y)

(***************************************************************************)
(* The App component (App.tsx, lines 108-383): the effect that calls init  *)
(* and builds the GUI, the handlers of the GUI, the cleanup of the effect, *)
(* and the continuation of init when createParticleSystem settles.         *)
(***************************************************************************)
\* What the handlers and the effect read and write, as one record.
World ==
    [ app |-> app, sys |-> sys, rafQueue |-> rafQueue, inits |-> inits,
      effectMounted |-> effectMounted ]

Apply(w) ==
    /\ app' = w.app
    /\ sys' = w.sys
    /\ rafQueue' = w.rafQueue
    /\ inits' = w.inits
    /\ effectMounted' = w.effectMounted

NoGpuMessage == "WebGPU is not supported in this browser"

\* A mutant of gpuMissing: init does not look at navigator.gpu.
gpuMissingIgnored(g) == FALSE

\* !navigator.gpu (line 151)
gpuMissing(g) == ~g

\* A mutant of initCatch: the error is set, loading is left as it was.
initCatchKeepsLoading(a, mounted, message) ==
    IF mounted THEN [a EXCEPT !.error = message] ELSE a

\* A mutant of initCatch: the catch block does not look at mounted.
initCatchUnmounted(a, mounted, message) ==
    [a EXCEPT !.error = message, !.loading = FALSE]

\* The catch block of init (lines 172-177)
initCatch(a, mounted, message) ==
    IF mounted THEN [a EXCEPT !.error = message, !.loading = FALSE] ELSE a

\* A mutant of initResolved: a system that came up clears the error.
initResolvedClears(a, i) ==
    [a EXCEPT !.particleSystemRef = i, !.loading = FALSE, !.error = ""]

\* The mounted branch after the await of init (lines 166-168)
initResolved(a, i) == [a EXCEPT !.particleSystemRef = i, !.loading = FALSE]

\* destroy() of system i, on the record of the world
destroyOf(w, i) ==
    [w EXCEPT !.rafQueue = cancelAnimationFrame(@, w.sys[i].frameId),
              !.sys[i].root = "destroyed"]

\* init(...) called in the closure of effect e, up to its await of
\* createParticleSystem, or through its catch block when navigator.gpu is
\* missing (lines 140-178).  The call is call number app.calls + 1, and the
\* system it creates has this number.
initOf(w, e, options) ==
    IF gpuMissing(gpu)
    THEN [w EXCEPT !.app = initCatch([@ EXCEPT !.calls = @ + 1],
                                     w.effectMounted[e], NoGpuMessage),
                   !.inits[w.app.calls + 1] = [effect |-> e, pc |-> "done"]]
    ELSE [w EXCEPT !.app.calls = @ + 1,
                   !.sys[w.app.calls + 1] =
                      [NoSystem EXCEPT !.stage = "init", !.options = options],
                   !.inits[w.app.calls + 1] = [effect |-> e, pc |-> "awaiting"]]

\* The cleanup of the effect (lines 333-340)
cleanupOf(w) ==
    IF w.app.particleSystemRef # 0
    THEN [destroyOf(w, w.app.particleSystemRef) EXCEPT
            !.effectMounted[w.app.effect] = FALSE,
            !.app.particleSystemRef = 0,
            !.app.gui = 0]
    ELSE [w EXCEPT !.effectMounted[w.app.effect] = FALSE, !.app.gui = 0]

\* A run of the effect (lines 125-189): mounted = true, init with the
\* parameters of the state, a new GUI.
effectOf(w) ==
    [ initOf([w EXCEPT !.effectMounted[w.app.effect + 1] = TRUE,
                       !.app.effect = @ + 1],
             w.app.effect + 1, w.app.params)
        EXCEPT !.app.gui = w.app.effect + 1 ]

\* The component is mounted: the first run of the effect.
Mount ==
    /\ app.phase = "unmounted"
    /\ \E w \in { effectOf([World EXCEPT !.app.phase = "mounted"]) } : Apply(w)
    /\ UNCHANGED <<samplerVars, nextFrameId, now, gpu>>

\* The values the controls of the GUI are moved to.
GuiValues ==
    [ particleCount |-> {1}, edgeWeight |-> {2} ]

GuiOptions(params) ==
    UNION { { [params EXCEPT ![f] = v] : v \in GuiValues[f] } :
               f \in DOMAIN GuiValues } \ {params}

\* The parameters the controls can give.
AppOptions ==
    { [DefaultOptions EXCEPT !.particleCount = n, !.edgeWeight = e] :
         n \in UNION {GuiValues.particleCount, {DefaultOptions.particleCount}},
         e \in UNION {GuiValues.edgeWeight, {DefaultOptions.edgeWeight}} }

\* onFinishChange of a control (lines 202-329): setX(value) and init with the
\* new value in the closure of the effect that built the GUI; then React
\* renders, cleans the effect up and runs it again.
GuiChange(options) ==
    /\ app.phase = "mounted"
    /\ ~MicrotaskPending
    /\ app.calls + 2 <= MaxSystems
    /\ options \in GuiOptions(app.params)
    /\ \E called \in { initOf([World EXCEPT !.app.params = options],
                              app.effect, options) } :
          \E w \in { effectOf(cleanupOf(called)) } : Apply(w)
    /\ UNCHANGED <<samplerVars, nextFrameId, now, gpu>>

\* The component is unmounted: the cleanup of the effect.
Unmount ==
    /\ app.phase = "mounted"
    /\ ~MicrotaskPending
    /\ \E w \in { cleanupOf([World EXCEPT !.app.phase = "gone"]) } : Apply(w)
    /\ UNCHANGED <<samplerVars, nextFrameId, now, gpu>>

\* onMouseEnter, onMouseLeave, onTouchStart, onTouchEnd (lines 120-122)
HoverEvent(h) ==
    /\ app.phase = "mounted"
    /\ ~MicrotaskPending
    /\ app.particleSystemRef # 0
    /\ sys' = [sys EXCEPT ![app.particleSystemRef].isHovering = h]
    /\ UNCHANGED <<rafQueue, nextFrameId, now, samplerVars, appVars>>

\* createParticleSystem of call i has settled: the rest of init (lines
\* 166-177).
InitContinue(i) ==
    /\ inits[i].pc = "awaiting"
    /\ sys[i].stage \in {"resolved", "rejected"}
    /\ \E w \in { IF sys[i].stage = "rejected"
                  THEN [World EXCEPT !.app = initCatch(@, effectMounted[inits[i].effect],
                                                       sys[i].message)]
                  ELSE IF effectMounted[inits[i].effect]
                  THEN [World EXCEPT !.app = initResolved(@, i)]
                  ELSE destroyOf(World, i) } :
          Apply([w EXCEPT !.inits[i].pc = "done"])
    /\ UNCHANGED <<samplerVars, nextFrameId, now, gpu>>

\* The logos of the runs of App: a ring and an empty image.
AppBitmaps ==
    { b \in SmallBitmaps : b.alpha[0] = 0 \/ (b.width = 3 /\ b.alpha[4] = 0) }

\* The time between two animation frames of the runs of App, in milliseconds.
AppFrameGaps == {16}

AppInit ==
    /\ bitmap \in AppBitmaps
    /\ logoPixelPositionsCache = [e \in EdgeWeights |-> Absent]
    /\ fetches = 0
    /\ IdleSystems
    /\ gpu \in BOOLEAN
    /\ app = [NoApp EXCEPT !.params = DefaultOptions]
    /\ effectMounted = [k \in Systems |-> FALSE]
    /\ inits = [i \in Systems |-> NoInit]

AppNext ==
    \/ Mount
    \/ \E options \in AppOptions : GuiChange(options)
    \/ Unmount
    \/ \E h \in BOOLEAN : HoverEvent(h)
    \/ \E i \in Systems : InitContinue(i)
    \/ \E i \in Systems, outcome \in RootOutcomes : CreateRoot(i, outcome)
    \/ \E e \in EdgeWeights : LoadLogoSettle(e)
    \/ \E i \in Systems : CreateFinish(i)
    \/ \E i \in Systems, gap \in AppFrameGaps : Animate(i, gap)

Spec == AppInit /\ [][AppNext]_vars

\* C3 as the specification states it: at most one particle system has an
\* animation frame pending or executing at any time.
C3_SingleLoop ==
    Cardinality({ i \in Systems : \E r \in rafQueue : r.system = i }) <= 1

\* C6: when navigator.gpu is absent no call of init reaches
\* createParticleSystem: no system, no GPU root and no animation frame is
\* ever created, and every call of init (made while its effect is mounted)
\* leaves error at "WebGPU is not supported in this browser" and loading
\* false.
C6_NoGpu ==
    ~gpu =>
       /\ \A i \in Systems : sys[i] = NoSystem
       /\ rafQueue = {}
       /\ nextFrameId = 1
       /\ app.calls >= 1 => app.error = NoGpuMessage /\ ~app.loading

\* Without navigator.gpu the component was mounted, a control was moved and
\* the component was unmounted.
C6_Witness ==
    /\ ~gpu
    /\ app.calls = 3
    /\ app.phase = "gone"
    /\ app.error = NoGpuMessage

\* The messages of the failures of loadLogoPixelPositions.
LogoFailures == {"Failed to fetch", "Logo mask unavailable", "Logo mask empty"}

\* C7: a createParticleSystem that rejects with a failure of the logo has
\* run no frame (nothing dispatched, nothing drawn) and has no frame
\* requested, and when init continues from it with its effect still mounted
\* error becomes the message of the failure and loading false.
C7_LogoFailure ==
    [][ \A i \in Systems :
           (sys'[i].stage = "rejected" /\ sys'[i].message \in LogoFailures) =>
              /\ sys'[i].frames = 0
              /\ sys'[i].dispatch = NoDispatch
              /\ sys'[i].draw = NoDraw
              /\ \A r \in rafQueue' : r.system # i
              /\ ( /\ inits[i].pc = "awaiting"
                   /\ inits'[i].pc = "done"
                   /\ effectMounted[inits[i].effect] ) =>
                      /\ app'.error = sys[i].message
                      /\ ~app'.loading ]_vars

\* The logo has no solid pixel, and the mounted App shows the failure.
C7_Witness ==
    \E i \in Systems :
       /\ sys[i].stage = "rejected"
       /\ sys[i].message = "Logo mask empty"
       /\ inits[i].pc = "done"
       /\ effectMounted[inits[i].effect]
       /\ app.error = "Logo mask empty"
       /\ ~app.loading

\* C8: no step of the App takes error from a message back to null, and no
\* step takes loading from false to true.
C8_ErrorsTerminal ==
    [][ /\ app.error # "" => app'.error # ""
        /\ ~app.loading => ~app'.loading ]_vars

\* An init failed, and a later init brought a system up.
C8_Witness ==
    /\ app.error # ""
    /\ app.particleSystemRef # 0
    /\ sys[app.particleSystemRef].frames >= 2

\* C16: the image is fetched and decoded once for each edge weight asked
\* for, however many calls ask for it and whenever they do; a promise in the
\* cache stays there, and once settled it stays as it settled, rejected or
\* resolved; every createParticleSystem that went past the call got the
\* promise of the cache: it fails with the error of that promise or builds
\* its points from the list of that promise.
C16_OneLoad ==
    [][ /\ fetches' = Cardinality({ e \in EdgeWeights :
                                      logoPixelPositionsCache'[e].state # "absent" })
        /\ \A e \in EdgeWeights :
              /\ logoPixelPositionsCache[e].state # "absent" =>
                    logoPixelPositionsCache'[e].state # "absent"
              /\ logoPixelPositionsCache[e].state \in {"resolved", "rejected"} =>
                    logoPixelPositionsCache'[e] = logoPixelPositionsCache[e]
        /\ \A i \in Systems :
              LET promise == logoPixelPositionsCache'[sys'[i].options.edgeWeight]
              IN  /\ sys'[i].stage = "logo" => promise.state # "absent"
                  /\ (sys'[i].stage = "rejected" /\ sys'[i].message \in LogoFailures) =>
                        promise = Rejected(sys'[i].message)
                  /\ sys'[i].stage = "resolved" => promise.state = "resolved"
                  /\ (sys[i].stage = "logo" /\ sys'[i].stage = "resolved") =>
                        sys'[i].logoMassPoints
                           = logoPointsLoop(promise.value, sys'[i].options.particleCount,
                                            seedWord(sys'[i].options.seed)).points
                  /\ sys[i].stage = "resolved" =>
                        sys'[i].logoMassPoints = sys[i].logoMassPoints ]_vars

\* Two calls for one edge weight failed with the one rejected promise, and
\* a call for another edge weight loaded the image again and came up.
C16_Witness ==
    /\ fetches = 2
    /\ \E i, j, k \in Systems :
          /\ i # j
          /\ sys[i].options.edgeWeight = sys[j].options.edgeWeight
          /\ sys[i].stage = "rejected" /\ sys[i].message = "Failed to fetch"
          /\ sys[j].stage = "rejected" /\ sys[j].message = "Failed to fetch"
          /\ sys[k].stage = "resolved"
          /\ sys[k].options.edgeWeight # sys[i].options.edgeWeight

\* C20: when an init continues after the effect that called it was cleaned
\* up, the state and the refs of the App are left as they were, whether
\* createParticleSystem resolved or rejected, and a system that came up is
\* destroyed in that step, with no frame left requested; particleSystemRef
\* never holds the system of an init whose effect was cleaned up.
C20_StaleInit ==
    [][ \A i \in Systems :
           /\ ( /\ inits[i].pc = "awaiting"
                /\ inits'[i].pc = "done"
                /\ ~effectMounted[inits[i].effect] ) =>
                   /\ app' = app
                   /\ sys[i].stage = "resolved" =>
                         /\ sys'[i].root = "destroyed"
                         /\ \A r \in rafQueue' : r.system # i
           /\ ( /\ inits'[i].pc # "none"
                /\ ~effectMounted'[inits'[i].effect] ) =>
                   app'.particleSystemRef # i ]_vars

\* The App is mounted and still loading, with no error: the system of one
\* init came up and was destroyed, and the createParticleSystem of another
\* was rejected.
C20_Witness ==
    /\ app.phase = "mounted"
    /\ app.loading
    /\ app.error = ""
    /\ \E i, j \in Systems :
          /\ inits[i].pc = "done" /\ sys[i].stage = "resolved"
          /\ sys[i].frames >= 1 /\ sys[i].root = "destroyed"
          /\ inits[j].pc = "done" /\ sys[j].stage = "rejected"

\* C21 as the specification states it: once the component has unmounted
\* and every call of init and of createParticleSystem has settled, every GPU
\* root that tgpu.init() gave has been destroyed.
C21_NoLeak ==
    ( /\ app.phase = "gone"
      /\ \A i \in Systems :
            /\ inits[i].pc # "awaiting"
            /\ sys[i].stage \notin {"init", "logo"} ) =>
       \A i \in Systems : sys[i].root # "live"

\* C22: a system that is up and not destroyed has exactly one animation
\* frame requested, the one frameId names; from the step that destroys it
\* on it has none, and no later step runs a frame of it: its frame count,
\* its uniforms, its last dispatch, its last draw and its particle buffers
\* stay as destroy() found them.
C22_NoFrameAfterDestroy ==
    [][ \A i \in Systems :
           /\ (sys'[i].stage = "resolved" /\ sys'[i].root = "live") =>
                 { r \in rafQueue' : r.system = i }
                    = { [id |-> sys'[i].frameId, system |-> i] }
           /\ sys'[i].root = "destroyed" => \A r \in rafQueue' : r.system # i
           /\ sys[i].root = "destroyed" =>
                 /\ sys'[i].root = "destroyed"
                 /\ sys'[i].frames = sys[i].frames
                 /\ sys'[i].frameId = sys[i].frameId
                 /\ sys'[i].uniforms = sys[i].uniforms
                 /\ sys'[i].dispatch = sys[i].dispatch
                 /\ sys'[i].draw = sys[i].draw
                 /\ sys'[i].particleBuffers = sys[i].particleBuffers ]_vars

\* A system was destroyed after its second frame, with the frame that the
\* second requested pending, and setHovering was called on it afterwards.
C22_Witness ==
    \E i \in Systems :
       /\ sys[i].root = "destroyed"
       /\ sys[i].frames = 2
       /\ sys[i].frameId = 2
       /\ sys[i].isHovering
       /\ rafQueue = {}

\* The state of the generator after k calls of rng() from the state s.
RECURSIVE rngAfter(_, _)
rngAfter(s, k) == IF k = 0 THEN s ELSE rngAfter(rngAdvance(s), k - 1)

\* The indices thread index reads and writes (lines 232-253, 289-292 and
\* 337), for a count of mass points massCount.
ThreadIndices(index, massCount) ==
    [ particlesIn |-> {index} \cup { imod(index + step, massCount) : step \in {1, 13, 25, 37} },
      restTargets |-> {index},
      massPoints |-> {0} \cup (1..(massCount - 1)),
      particlesOut |-> {index} ]

\* C23: the candidate list generateLogoPoints indexes is not empty, and the
\* index floor(rng() * length) of each of its points, as the index of the
\* largest and of the smallest value rng() can return, is in 0..length-1;
\* in every frame the four storage buffers hold particleCount elements,
\* massCount is particleCount, and each thread index in 0..particleCount-1
\* reads rest[index], particlesIn[index], the mass points 0..massCount-1 and
\* the neighbours (index + step) % massCount and writes particlesOut[index],
\* all inside 0..particleCount-1.
C23_IndicesInRange ==
    [][ \A i \in Systems :
           /\ (sys[i].stage = "logo" /\ sys'[i].stage = "resolved") =>
                 LET list == logoPixelPositionsCache[sys[i].options.edgeWeight].value
                     InRange(u) == rngTimes(u, Len(list)) \in 0..(Len(list) - 1)
                 IN  /\ Len(list) >= 1
                     /\ \A k \in 0..(sys[i].options.particleCount - 1) :
                           InRange(rngWord(rngAfter(seedWord(sys[i].options.seed), 3 * k + 1)))
                     /\ InRange(<< Half - 1, Half - 1 >>)
                     /\ InRange(<< 0, 0 >>)
           /\ FrameOf(i) =>
                 LET n == sys'[i].options.particleCount
                     InBuffer(indices, buffer) ==
                        \A j \in indices : j \in 0..(n - 1) /\ j + 1 \in DOMAIN buffer
                 IN  /\ n >= 1
                     /\ sys'[i].uniforms.massCount = n
                     /\ sys'[i].dispatch.threads = n
                     /\ \A index \in 0..(n - 1) :
                           LET used == ThreadIndices(index, sys'[i].uniforms.massCount)
                           IN  /\ InBuffer(used.particlesIn,
                                           BeforeDispatch(i)[sys'[i].dispatch.particlesIn])
                               /\ InBuffer(used.particlesOut,
                                           BeforeDispatch(i)[sys'[i].dispatch.particlesOut])
                               /\ InBuffer(used.restTargets, sys'[i].restBuffer)
                               /\ InBuffer(used.massPoints, sys'[i].massBuffer)
                               /\ used.massPoints = 0..(n - 1) ]_vars

\* A system of as many particles as a system can have ran a frame, from a
\* list of more than one candidate: a neighbour of its last thread is the
\* first particle.
C23_Witness ==
    \E i \in Systems :
       /\ sys[i].frames >= 2
       /\ sys[i].options.particleCount = MaxParticles
       /\ Len(logoPixelPositionsCache[sys[i].options.edgeWeight].value) > 1
       /\ 0 \in ThreadIndices(MaxParticles - 1, sys[i].uniforms.massCount).particlesIn

\* The index (from 1) of the mass point the statement names for a particle
\* at pos: the lowest of those at the least squared distance.
LowestNearest(massPoints, pos) ==
    CHOOSE j \in DOMAIN massPoints :
       /\ \A l \in DOMAIN massPoints :
             SquaredDistance(massPoints[j], pos) <= SquaredDistance(massPoints[l], pos)
       /\ \A l \in 1..(j - 1) :
             SquaredDistance(massPoints[j], pos) < SquaredDistance(massPoints[l], pos)

\* C24: in every frame the mass point the thread of a particle is drawn to
\* is the one at the least squared distance from the position of the
\* particle in the input buffer, over all the massCount mass points, and
\* of several at that distance the one of the lowest index.
C24_NearestMass ==
    \A i \in Systems :
       sys[i].frames >= 1 =>
          \A k \in 1..sys[i].options.particleCount :
             nearestOf(sys[i].massBuffer, LastInput(i)[k].position, sys[i].uniforms)
                = sys[i].massBuffer[LowestNearest(sys[i].massBuffer,
                                                  LastInput(i)[k].position)]

\* A particle of the last frame was as far from two mass points at
\* different places, and no mass point was closer.
C24_Witness ==
    \E i \in Systems :
       /\ sys[i].frames >= 2
       /\ \E k \in 1..sys[i].options.particleCount :
             \E j, l \in DOMAIN sys[i].massBuffer :
                /\ j < l
                /\ sys[i].massBuffer[j] # sys[i].massBuffer[l]
                /\ LowestNearest(sys[i].massBuffer, LastInput(i)[k].position) = j
                /\ SquaredDistance(sys[i].massBuffer[j], LastInput(i)[k].position)
                      = SquaredDistance(sys[i].massBuffer[l], LastInput(i)[k].position)

(***************************************************************************)
(* A particle system whose particles repel each other hard enough to pass  *)
(* the speed limit in a frame.                                             *)
(***************************************************************************)
\* The Repel control of App goes from 0 to 2000 (line 315).
SpeedOptions ==
    { [DefaultOptions EXCEPT !.particleCount = n, !.scatter = sc, !.seed = 1,
                             !.repelStrength = r] :
         n \in {2, 3}, sc \in {0, (5 * Scale) \div 100}, r \in {10, 1000} }

SpeedNext ==
    \/ \E options \in SpeedOptions : CreateCall(1, options)
    \/ \E outcome \in RootOutcomes : CreateRoot(1, outcome)
    \/ \E e \in EdgeWeights : LoadLogoSettle(e)
    \/ CreateFinish(1)
    \/ \E gap \in FrameGaps : Animate(1, gap)
    \/ \E h \in BOOLEAN : SetHovering(1, h)
    \/ Destroy(1)

SpeedSpec == ParticleInit /\ [][SpeedNext]_vars

\* The velocity of thread k of the last frame of system i before the speed
\* limit: vel * damping + totalForce * dt.
Accelerated(i, k) ==
    acceleratedBy(LastInput(i)[k].velocity, totalForceOf(LastForces(i, k)), sys[i].uniforms)

\* mix(0.8, 3.2, hover), in coordinate units per second
SpeedBound(hover) == Quot((800 + Quot((3200 - 800) * hover, Milli)) * Scale, Milli)

\* C25: the velocity each thread of a frame writes has a magnitude of at
\* most mix(0.8, 3.2, hover), which is 0.8 at hover 0 and 3.2 at hover 1; a
\* velocity within that limit is written as it was computed; and the
\* position written is the position read plus the written velocity times
\* dt.  Magnitudes are rounded down to the grid of the coordinates.
C25_SpeedLimit ==
    /\ SpeedBound(0) = (8 * Scale) \div 10
    /\ SpeedBound(Milli) = (32 * Scale) \div 10
    /\ \A i \in Systems :
          sys[i].frames >= 1 =>
             \A k \in 1..sys[i].options.particleCount :
                LET written == sys[i].particleBuffers[sys[i].dispatch.particlesOut][k]
                    u == sys[i].uniforms
                IN  /\ vlength(written.velocity) <= SpeedBound(u.hoverStrength)
                    /\ vlength(Accelerated(i, k)) <= SpeedBound(u.hoverStrength) =>
                          written.velocity = Accelerated(i, k)
                    /\ written.position
                          = << LastInput(i)[k].position[1]
                                  + Quot(written.velocity[1] * u.deltaTime, Milli),
                               LastInput(i)[k].position[2]
                                  + Quot(written.velocity[2] * u.deltaTime, Milli) >>

\* In a frame with the pointer over the button one particle was pushed
\* past the limit and written at the limit, and another was written with
\* the velocity computed for it, which was not zero.
C25_Witness ==
    \E i \in Systems :
       /\ sys[i].frames >= 2
       /\ sys[i].uniforms.hoverStrength > 0
       /\ \E k, l \in 1..sys[i].options.particleCount :
             LET out == sys[i].particleBuffers[sys[i].dispatch.particlesOut]
             IN  /\ vlength(Accelerated(i, k)) > SpeedBound(sys[i].uniforms.hoverStrength)
                 /\ out[k].velocity # Accelerated(i, k)
                 /\ out[k].position # LastInput(i)[k].position
                 /\ vlength(Accelerated(i, l)) <= SpeedBound(sys[i].uniforms.hoverStrength)
                 /\ out[l].velocity # <<0, 0>>

\* The word of call number k (from 1) of the generator makeRng(seed).
DrawWord(seed, k) == rngWord(rngAfter(seedWord(seed), k))

\* Point k of generateLogoPoints when calls 3k-2, 3k-1 and 3k of the
\* generator give its candidate index, its dx and its dy.
DrawnMassPoint(list, seed, k) ==
    LET base == list[rngTimes(DrawWord(seed, 3 * k - 2), Len(list)) + 1]
        dx == rngTimes(DrawWord(seed, 3 * k - 1), jitter) - jitter \div 2
        dy == rngTimes(DrawWord(seed, 3 * k), jitter) - jitter \div 2
    IN  << clampUnit(base[1] + dx), clampUnit(base[2] + dy) >>

\* Rest point k of n about the mass point t when calls 3n+2k-1 and 3n+2k of
\* the generator give its angle and its radius.
DrawnRestPoint(t, seed, n, k, scatter) ==
    LET dir == Directions[rngTimes(DrawWord(seed, 3 * n + 2 * k - 1), Len(Directions)) + 1]
        radius == rngTimes(DrawWord(seed, 3 * n + 2 * k), scatter \div 5)
    IN  << t[1] + dir[1] * radius, t[2] + dir[2] * radius >>

\* C26: the state of the generator is a 32-bit word that each call advances
\* by 0x6d2b79f5 modulo 2^32, from the seed; the data of a system is the
\* data that the calls of makeRng(seed) give when they are drawn in the
\* order candidate index, dx, dy for each point and then angle, radius for
\* each rest point, the initial particles being the rest points at
\* velocity zero; and two systems created with equal options (over the
\* candidate list of the one image) have the same mass points, the same
\* rest points and the same contents of the mass and rest buffers.
C26_Deterministic ==
    [][ /\ rngAdvance(<< Half - 1, Half - 1 >>) = << 27947, 31220 >>
        /\ \A i \in Systems :
              (sys[i].stage = "logo" /\ sys'[i].stage = "resolved") =>
                 LET list == logoPixelPositionsCache[sys[i].options.edgeWeight].value
                     o == sys[i].options
                     n == o.particleCount
                 IN  /\ sys'[i].logoMassPoints
                           = [ k \in 1..n |-> DrawnMassPoint(list, o.seed, k) ]
                     /\ sys'[i].restPositions
                           = [ k \in 1..n |->
                                  DrawnRestPoint(sys'[i].logoMassPoints[k], o.seed, n, k,
                                                 o.scatter) ]
                     /\ sys'[i].particleBuffers[sys'[i].dispatch.particlesIn]
                           = [ k \in 1..n |->
                                  [position |-> sys'[i].restPositions[k],
                                   velocity |-> <<0, 0>>] ]
        /\ \A i, j \in Systems :
              ( /\ sys'[i].stage = "resolved"
                /\ sys'[j].stage = "resolved"
                /\ sys'[i].options = sys'[j].options ) =>
                 /\ sys'[i].logoMassPoints = sys'[j].logoMassPoints
                 /\ sys'[i].restPositions = sys'[j].restPositions
                 /\ sys'[i].massBuffer = sys'[j].massBuffer
                 /\ sys'[i].restBuffer = sys'[j].restBuffer ]_vars

\* Two systems of two particles came up with equal options, their rest
\* points away from their mass points, and a third with another edge
\* weight has other mass points.
C26_Witness ==
    \E i, j, l \in Systems :
       /\ i # j
       /\ sys[i].stage = "resolved" /\ sys[j].stage = "resolved"
       /\ sys[l].stage = "resolved"
       /\ sys[i].options = sys[j].options
       /\ sys[i].options.particleCount = 2
       /\ sys[i].restPositions # sys[i].logoMassPoints
       /\ sys[i].restPositions[1] # sys[i].restPositions[2]
       /\ sys[l].options # sys[i].options
       /\ sys[l].logoMassPoints # sys[i].logoMassPoints

====
